---- MODULE Spec2Model ----
(***************************************************************************)
(* Model of the Raft engine of cell0/kernel/src/consensus/mod.rs           *)
(* (struct Raft<T>) running in a static cluster.  Every node is a record   *)
(* with the fields of struct Raft; every public handler is an operator     *)
(* from (node, input) to the new node (and the reply it returns).  An      *)
(* action of the model is one call of a handler by the I/O layer followed  *)
(* by take_events(): the Send* events are put on the network, the replies  *)
(* returned by the RPC handlers are put on the network as well.            *)
(***************************************************************************)
EXTENDS Integers, Sequences, FiniteSets, TLC

\* ------------------------------------------------------------ bounds
MaxNodes == 3        \* size of the multi-node cluster
MaxCandidate == 2    \* the election timers of nodes 1..MaxCandidate fire
MaxElections == 3    \* election timeouts taken in one run, over all nodes
MaxProposals == 3    \* commands proposed in one run: the k-th one is command k
MaxLog == 2          \* propose is taken while last_index < MaxLog
MaxWork == 4         \* elections so far + longest log stay within MaxWork
MaxInFlight == 1     \* messages the network holds at once; the rest is dropped

Commands == 1..MaxProposals

\* Option<T>: None is the empty sequence, Some(x) the one-element sequence
None == <<>>

Some(x) == <<x>>

VARIABLES
    peers,      \* Config::peers, the same static list on every node
    node,       \* node id -> the fields of struct Raft
    msgs,       \* RPCs and replies in flight: any of them may be delivered
                \* (in any order), delivered again, or dropped
    became,     \* history: per node, the terms of its BecameLeader events
    grants,     \* history: <<term, voter, candidate>> of every vote_granted reply
    applied,    \* history: per node, concatenation of its Committed slices
    elections,  \* number of election timeouts so far
    proposals,  \* number of commands proposed so far
    pt,         \* process/mod.rs: the fields of PROCESS_TABLE
    plog,       \* history: the last process-table call and what it returned
    sm,         \* sypas/mod.rs: the fields of the SypasManager
    slog,       \* history: the last SypasManager call and what it returned
    cv,         \* process/mod.rs: a Capabilities value and the calls made on it
    ipc,        \* ipc/mod.rs: the fields of the IpcManager, and its history
    heap,       \* memory/mod.rs: the HealingHeapAllocator, and its history
    frames,     \* memory/mod.rs: the PageFrameAllocator, and its history
    rn          \* raft.rs: one RaftNode, and the last call made on it

\* the state of the subsystems other than the Raft cluster
subsystems == <<pt, plog, sm, slog, cv, ipc, heap, frames, rn>>

vars == <<peers, node, msgs, became, grants, applied, elections, proposals, subsystems>>

\* a subsystem that a specification does not run
Idle == <<>>

MemoryIdle == heap = Idle /\ frames = Idle

\* ------------------------------------------------------------ Config
cluster_size == Len(peers)

\* a quorum that rounds the half up before adding one
quorum_rounded_up == ((Len(peers) + 1) \div 2) + 1

quorum == (Len(peers) \div 2) + 1

Members == {peers[i] : i \in 1..Len(peers)}

\* Config::peers.iter().position(id).unwrap_or(0), 1-based
peer_idx(id) ==
    IF id \in Members THEN CHOOSE i \in 1..Len(peers) : peers[i] = id ELSE 1

\* ------------------------------------------------------------ PersistentState
last_index(self) == Len(self.log)

last_term(self) == IF Len(self.log) = 0 THEN 0 ELSE self.log[Len(self.log)].term

term_at(self, index) ==
    IF index = 0 THEN 0
    ELSE IF index <= Len(self.log) THEN self.log[index].term ELSE 0

Contains(seq, x) == \E i \in 1..Len(seq) : seq[i] = x

\* ------------------------------------------------------------ LeaderState
LeaderState_new(node_count, last_log_index) ==
    [next_index |-> [i \in 1..node_count |-> last_log_index + 1],
     match_index |-> [i \in 1..node_count |-> 0]]

\* ------------------------------------------------------------ Raft::new
Raft_new(id) ==
    [node_id |-> id,
     current_term |-> 0,
     voted_for |-> None,
     log |-> <<>>,
     commit_index |-> 0,
     last_applied |-> 0,
     state |-> "Follower",
     leader_state |-> None,
     votes_received |-> <<>>,
     pending_events |-> <<>>]

Push(self, evs) == [self EXCEPT !.pending_events = @ \o evs]

EvPersistState == [kind |-> "PersistState"]
EvResetElectionTimer == [kind |-> "ResetElectionTimer"]
EvBecameLeader == [kind |-> "BecameLeader"]
EvSendHeartbeats == [kind |-> "SendHeartbeats"]
EvSteppedDown(t) == [kind |-> "SteppedDown", new_term |-> t]
EvCommitted(es) == [kind |-> "Committed", entries |-> es]
EvSendRequestVote(p, a) == [kind |-> "SendRequestVote", peer |-> p, args |-> a]
EvSendAppendEntries(p, a) == [kind |-> "SendAppendEntries", peer |-> p, args |-> a]

\* ------------------------------------------------------------ become_leader
become_leader(self) ==
    Push([self EXCEPT !.state = "Leader",
                      !.leader_state = Some(LeaderState_new(cluster_size, last_index(self)))],
         <<EvBecameLeader, EvSendHeartbeats>>)

\* ------------------------------------------------------------ step_down
\* a step_down that adopts the term and keeps the role
step_down_keeps_role(self, new_term) ==
    Push([self EXCEPT !.current_term = new_term,
                      !.voted_for = None],
         <<EvSteppedDown(new_term), EvPersistState>>)

step_down(self, new_term) ==
    Push([self EXCEPT !.current_term = new_term,
                      !.voted_for = None,
                      !.state = "Follower",
                      !.leader_state = None],
         <<EvSteppedDown(new_term), EvPersistState>>)


\* ------------------------------------------------------------ check_apply
\* ((last_applied+1)..=commit_index).filter_map(|i| entry_at(i).cloned())
committed_slice(self) ==
    LET lo == self.last_applied + 1
        hi == IF self.commit_index <= Len(self.log) THEN self.commit_index ELSE Len(self.log)
    IN IF lo <= hi THEN SubSeq(self.log, lo, hi) ELSE <<>>

check_apply(self) ==
    IF self.commit_index > self.last_applied
    THEN LET entries == committed_slice(self)
             s1 == [self EXCEPT !.last_applied = self.commit_index]
         IN IF entries # <<>> THEN Push(s1, <<EvCommitted(entries)>>) ELSE s1
    ELSE self

\* ------------------------------------------------------------ start_election
RequestVoteArgs(self) ==
    [term |-> self.current_term,
     candidate_id |-> self.node_id,
     last_log_index |-> last_index(self),
     last_log_term |-> last_term(self)]

OtherPeers(id) == SelectSeq(peers, LAMBDA p : p # id)

start_election(self) ==
    LET s1 == Push([self EXCEPT !.state = "Candidate",
                                !.current_term = self.current_term + 1,
                                !.voted_for = Some(self.node_id),
                                !.votes_received = <<self.node_id>>],
                   <<EvPersistState>>)
        args == RequestVoteArgs(s1)
        others == OtherPeers(self.node_id)
        s2 == Push(s1, [i \in 1..Len(others) |-> EvSendRequestVote(others[i], args)])
        s3 == Push(s2, <<EvResetElectionTimer>>)
    IN IF Len(s3.votes_received) >= quorum THEN become_leader(s3) ELSE s3

\* ------------------------------------------------------------ handle_request_vote
\* a comparison that wants a strictly longer log on equal last terms
log_is_up_to_date_strict(self, args) ==
    \/ args.last_log_term > last_term(self)
    \/ /\ args.last_log_term = last_term(self)
       /\ args.last_log_index > last_index(self)

log_is_up_to_date(self, args) ==
    \/ args.last_log_term > last_term(self)
    \/ /\ args.last_log_term = last_term(self)
       /\ args.last_log_index >= last_index(self)

\* a node that votes again in a term it has already voted in
can_vote_again(self, args) == TRUE

can_vote(self, args) ==
    \/ self.voted_for = None
    \/ self.voted_for = Some(args.candidate_id)

RequestVoteReply(t, granted, why) ==
    [term |-> t, vote_granted |-> granted, reason |-> why]

handle_request_vote(self, args) ==
    IF args.term < self.current_term
    THEN [self |-> self,
          reply |-> RequestVoteReply(self.current_term, FALSE, Some("Stale term"))]
    ELSE LET s1 == IF args.term > self.current_term THEN step_down(self, args.term) ELSE self
         IN IF ~log_is_up_to_date(s1, args)
            THEN [self |-> s1,
                  reply |-> RequestVoteReply(s1.current_term, FALSE, Some("Log not up-to-date"))]
            ELSE IF can_vote(s1, args)
            THEN [self |-> Push([s1 EXCEPT !.voted_for = Some(args.candidate_id)],
                                <<EvPersistState, EvResetElectionTimer>>),
                  reply |-> RequestVoteReply(s1.current_term, TRUE, None)]
            ELSE [self |-> s1,
                  reply |-> RequestVoteReply(s1.current_term, FALSE, Some("Already voted"))]

\* ------------------------------------------------------------ handle_request_vote_reply
record_granted_vote(self, from) ==
    IF Contains(self.votes_received, from) THEN self
    ELSE [self EXCEPT !.votes_received = Append(@, from)]

has_majority(self) == Len(self.votes_received) >= quorum

\* a candidate that also counts granted replies of earlier terms
handle_request_vote_reply_any_term(self, from, reply) ==
    IF reply.term > self.current_term THEN step_down(self, reply.term)
    ELSE IF self.state # "Candidate" THEN self
    ELSE IF reply.vote_granted
    THEN LET s1 == record_granted_vote(self, from)
         IN IF has_majority(s1) THEN become_leader(s1) ELSE s1
    ELSE self

handle_request_vote_reply(self, from, reply) ==
    IF reply.term > self.current_term THEN step_down(self, reply.term)
    ELSE IF self.state # "Candidate" \/ reply.term # self.current_term THEN self
    ELSE IF reply.vote_granted
    THEN LET s1 == record_granted_vote(self, from)
         IN IF has_majority(s1) THEN become_leader(s1) ELSE s1
    ELSE self

\* ------------------------------------------------------------ record_vote
record_vote(self, peer) ==
    LET s1 == record_granted_vote(self, peer)
    IN IF s1.state = "Candidate" /\ has_majority(s1) THEN become_leader(s1) ELSE s1

\* ------------------------------------------------------------ handle_append_entries
AppendEntriesReply(t, ok, conflict) ==
    [term |-> t, success |-> ok, conflict_info |-> conflict]

LogConflict(ct, ci) == [conflict_term |-> ct, conflict_index |-> ci]

\* while conflict_index > 1 && term_at(conflict_index - 1) == conflict_term
RECURSIVE first_index_of_term(_, _, _)
first_index_of_term(self, conflict_term, conflict_index) ==
    IF conflict_index > 1 /\ term_at(self, conflict_index - 1) = conflict_term
    THEN first_index_of_term(self, conflict_term, conflict_index - 1)
    ELSE conflict_index

\* one iteration of `for (i, entry) in args.entries.iter().enumerate()`
\* acc = [log, entries_added]
append_one(acc, index, entry) ==
    IF index <= Len(acc.log)
    THEN IF acc.log[index].term # entry.term
         THEN [log |-> SubSeq(acc.log, 1, index - 1), entries_added |-> TRUE]
         ELSE acc
    ELSE [log |-> Append(acc.log, entry), entries_added |-> TRUE]

RECURSIVE append_new_entries(_, _, _, _)
append_new_entries(acc, prev_log_index, entries, i) ==
    IF i > Len(entries) THEN acc
    ELSE append_new_entries(append_one(acc, prev_log_index + i, entries[i]),
                            prev_log_index, entries, i + 1)

Min(a, b) == IF a < b THEN a ELSE b

update_commit_index(self, args) ==
    IF args.leader_commit > self.commit_index
    THEN check_apply([self EXCEPT !.commit_index = Min(args.leader_commit, last_index(self))])
    ELSE self

handle_append_entries(self, args) ==
    IF args.term < self.current_term
    THEN [self |-> self, reply |-> AppendEntriesReply(self.current_term, FALSE, None)]
    ELSE
    LET s0 == Push(self, <<EvResetElectionTimer>>)
        s1 == IF args.term > s0.current_term THEN step_down(s0, args.term) ELSE s0
        s2 == IF s1.state # "Follower" THEN step_down(s1, args.term) ELSE s1
    IN IF args.prev_log_index > 0 /\ args.prev_log_index > last_index(s2)
       THEN [self |-> s2,
             reply |-> AppendEntriesReply(s2.current_term, FALSE,
                           Some(LogConflict(0, last_index(s2) + 1)))]
       ELSE IF args.prev_log_index > 0
               /\ term_at(s2, args.prev_log_index) # args.prev_log_term
       THEN LET conflict_term == term_at(s2, args.prev_log_index)
            IN [self |-> s2,
                reply |-> AppendEntriesReply(s2.current_term, FALSE,
                              Some(LogConflict(conflict_term,
                                   first_index_of_term(s2, conflict_term, args.prev_log_index))))]
       ELSE LET r == append_new_entries([log |-> s2.log, entries_added |-> FALSE],
                                        args.prev_log_index, args.entries, 1)
                s3 == [s2 EXCEPT !.log = r.log]
                s4 == IF r.entries_added THEN Push(s3, <<EvPersistState>>) ELSE s3
            IN [self |-> update_commit_index(s4, args),
                reply |-> AppendEntriesReply(s2.current_term, TRUE, None)]

\* ------------------------------------------------------------ send_append_entries_to
\* log.iter().skip(next_idx - 1).take(max_entries_per_rpc)
max_entries_per_rpc == 100

entries_from(self, next_idx) ==
    LET hi == Min(Len(self.log), next_idx - 1 + max_entries_per_rpc)
    IN IF next_idx <= hi THEN SubSeq(self.log, next_idx, hi) ELSE <<>>

AppendEntriesArgs(self, next_idx) ==
    [term |-> self.current_term,
     leader_id |-> self.node_id,
     prev_log_index |-> next_idx - 1,
     prev_log_term |-> term_at(self, next_idx - 1),
     entries |-> entries_from(self, next_idx),
     leader_commit |-> self.commit_index]

send_append_entries_to(self, peer) ==
    LET ls == self.leader_state[1]
        next_idx == ls.next_index[peer_idx(peer)]
    IN Push(self, <<EvSendAppendEntries(peer, AppendEntriesArgs(self, next_idx))>>)

RECURSIVE send_to_all(_, _, _)
send_to_all(self, others, i) ==
    IF i > Len(others) THEN self
    ELSE send_to_all(send_append_entries_to(self, others[i]), others, i + 1)

\* ------------------------------------------------------------ send_heartbeats
send_heartbeats(self) ==
    IF self.state # "Leader" THEN self
    ELSE send_to_all(self, OtherPeers(self.node_id), 1)

\* ------------------------------------------------------------ propose
LogEntry(t, i, c) == [term |-> t, index |-> i, command |-> c, entry_type |-> "Command"]

propose(self, command) ==
    IF self.state # "Leader" THEN [self |-> self, result |-> "NotLeader"]
    ELSE LET entry == LogEntry(self.current_term, last_index(self) + 1, command)
             s1 == Push([self EXCEPT !.log = Append(@, entry)], <<EvPersistState>>)
         IN [self |-> send_to_all(s1, OtherPeers(self.node_id), 1), result |-> entry.index]

\* ------------------------------------------------------------ advance_commit_index
replicated_count(self, n) ==
    LET mi == self.leader_state[1].match_index
    IN Cardinality({i \in DOMAIN mi : mi[i] >= n})

\* a loop that commits current-term entries without counting replicas
RECURSIVE advance_loop_uncounted(_, _, _)
advance_loop_uncounted(self, n, last) ==
    IF n > last THEN self
    ELSE IF term_at(self, n) # self.current_term
    THEN advance_loop_uncounted(self, n + 1, last)
    ELSE advance_loop_uncounted([self EXCEPT !.commit_index = n], n + 1, last)

\* for n in (commit_index + 1)..=last_index
RECURSIVE advance_loop(_, _, _)
advance_loop(self, n, last) ==
    IF n > last THEN self
    ELSE IF term_at(self, n) # self.current_term THEN advance_loop(self, n + 1, last)
    ELSE IF replicated_count(self, n) + 1 >= quorum
    THEN advance_loop([self EXCEPT !.commit_index = n], n + 1, last)
    ELSE self

advance_commit_index(self) ==
    check_apply(advance_loop(self, self.commit_index + 1, last_index(self)))

\* ------------------------------------------------------------ handle_append_entries_reply
\* while idx > 0 && term_at(idx) != conflict_term { idx -= 1 }
RECURSIVE last_index_of_term(_, _, _)
last_index_of_term(self, conflict_term, idx) ==
    IF idx > 0 /\ term_at(self, idx) # conflict_term
    THEN last_index_of_term(self, conflict_term, idx - 1)
    ELSE idx

backoff_next_index(self, pi, reply) ==
    IF reply.conflict_info # None
    THEN LET conflict == reply.conflict_info[1]
         IN IF conflict.conflict_term = 0 THEN conflict.conflict_index
            ELSE LET idx == last_index_of_term(self, conflict.conflict_term, last_index(self))
                 IN IF idx > 0 THEN idx ELSE conflict.conflict_index
    ELSE LET cur == self.leader_state[1].next_index[pi]
         IN IF cur > 1 THEN cur - 1 ELSE cur

handle_append_entries_reply(self, peer, args, reply) ==
    IF reply.term > self.current_term THEN step_down(self, reply.term)
    ELSE IF self.state # "Leader" \/ reply.term # self.current_term THEN self
    ELSE
    LET pi == peer_idx(peer)
        ls == self.leader_state[1]
    IN IF reply.success
       THEN LET new_match == args.prev_log_index + Len(args.entries)
                ls1 == IF new_match > ls.match_index[pi]
                       THEN [next_index |-> [ls.next_index EXCEPT ![pi] = new_match + 1],
                             match_index |-> [ls.match_index EXCEPT ![pi] = new_match]]
                       ELSE ls
            IN advance_commit_index([self EXCEPT !.leader_state = Some(ls1)])
       ELSE LET next_idx == backoff_next_index(self, pi, reply)
                ls1 == [ls EXCEPT !.next_index = [@ EXCEPT ![pi] = next_idx]]
                s1 == [self EXCEPT !.leader_state = Some(ls1)]
            IN Push(s1, <<EvSendAppendEntries(peer, AppendEntriesArgs(s1, next_idx))>>)

\* ------------------------------------------------------------ the I/O layer
\* take_events(): Send* events become messages on the network
Outgoing(evs) ==
    {[type |-> "RequestVote", to |-> evs[i].peer, args |-> evs[i].args] :
         i \in {j \in 1..Len(evs) : evs[j].kind = "SendRequestVote"}}
    \cup
    {[type |-> "AppendEntries", to |-> evs[i].peer, args |-> evs[i].args] :
         i \in {j \in 1..Len(evs) : evs[j].kind = "SendAppendEntries"}}

RECURSIVE CommittedEntries(_)
CommittedEntries(evs) ==
    IF evs = <<>> THEN <<>>
    ELSE (IF Head(evs).kind = "Committed" THEN Head(evs).entries ELSE <<>>)
         \o CommittedEntries(Tail(evs))

RECURSIVE CountKind(_, _)
CountKind(evs, k) ==
    IF evs = <<>> THEN 0
    ELSE (IF Head(evs).kind = k THEN 1 ELSE 0) + CountKind(Tail(evs), k)

\* The network keeps any subset of the messages handed to it, up to its
\* capacity: a delivered message may stay (duplication), any message may go
\* (loss), and delivery picks any message (reordering).
\* The network between the two nodes of a pair holds one message more, so
\* that a request can stay in flight across the election that follows it.
Capacity == IF Len(peers) = 2 THEN MaxInFlight + 1 ELSE MaxInFlight

Network(all) == {S \in SUBSET all : Cardinality(S) <= Capacity}

\* One call on node n that left it as `self`, then take_events() and the
\* hand-over of the events and of the returned replies to the network.
Drive(n, self, replies, granted) ==
    LET evs == self.pending_events
    IN /\ node' = [node EXCEPT ![n] = [self EXCEPT !.pending_events = <<>>]]
       /\ msgs' \in Network(msgs \cup Outgoing(evs) \cup replies)
       /\ became' = [became EXCEPT ![n] =
                        @ \o [i \in 1..CountKind(evs, "BecameLeader") |-> self.current_term]]
       /\ grants' = grants \cup granted
       /\ applied' = [applied EXCEPT ![n] = @ \o CommittedEntries(evs)]
       /\ UNCHANGED <<peers, subsystems>>

\* ------------------------------------------------------------ actions
ClusterSizes == {1, MaxNodes}

Init ==
    /\ peers \in {[i \in 1..k |-> i] : k \in ClusterSizes}
    /\ node = [i \in 1..Len(peers) |-> Raft_new(i)]
    /\ msgs = {}
    /\ became = [i \in 1..Len(peers) |-> <<>>]
    /\ grants = {}
    /\ applied = [i \in 1..Len(peers) |-> <<>>]
    /\ elections = 0
    /\ proposals = 0
    /\ pt = Idle
    /\ plog = Idle
    /\ sm = Idle
    /\ slog = Idle
    /\ cv = Idle
    /\ ipc = Idle
    /\ MemoryIdle
    /\ rn = Idle

LongestLog ==
    CHOOSE k \in 0..(MaxLog + 1) :
        /\ \A i \in DOMAIN node : Len(node[i].log) <= k
        /\ \E i \in DOMAIN node : Len(node[i].log) = k

ElectionTimeout(n) ==
    /\ n <= MaxCandidate
    /\ elections < MaxElections
    /\ elections + 1 + LongestLog <= MaxWork
    /\ elections' = elections + 1
    /\ Drive(n, start_election(node[n]), {}, {})
    /\ UNCHANGED proposals

HandleRequestVote(n, m) ==
    /\ UNCHANGED <<elections, proposals>>
    /\ m.type = "RequestVote" /\ m.to = n
    /\ LET r == handle_request_vote(node[n], m.args)
       IN Drive(n, r.self,
                {[type |-> "RequestVoteReply", to |-> m.args.candidate_id,
                  from |-> n, reply |-> r.reply]},
                IF r.reply.vote_granted
                THEN {<<r.reply.term, n, m.args.candidate_id>>} ELSE {})

HandleRequestVoteReply(n, m) ==
    /\ UNCHANGED <<elections, proposals>>
    /\ m.type = "RequestVoteReply" /\ m.to = n
    /\ Drive(n, handle_request_vote_reply(node[n], m.from, m.reply), {}, {})

\* record_vote(peer) is called for a vote the peer granted this node in the
\* node's current term ("Record vote received from peer")
RecordVote(n, p) ==
    /\ <<node[n].current_term, p, n>> \in grants
    /\ Drive(n, record_vote(node[n], p), {}, {})
    /\ UNCHANGED <<elections, proposals>>

HandleAppendEntries(n, m) ==
    /\ UNCHANGED <<elections, proposals>>
    /\ m.type = "AppendEntries" /\ m.to = n
    /\ LET r == handle_append_entries(node[n], m.args)
       IN Drive(n, r.self, {[type |-> "AppendEntriesReply", to |-> m.args.leader_id,
                             from |-> n, args |-> m.args, reply |-> r.reply]}, {})

HandleAppendEntriesReply(n, m) ==
    /\ UNCHANGED <<elections, proposals>>
    /\ m.type = "AppendEntriesReply" /\ m.to = n
    /\ Drive(n, handle_append_entries_reply(node[n], m.from, m.args, m.reply), {}, {})

Propose(n, c) ==
    /\ node[n].state = "Leader"
    /\ last_index(node[n]) < MaxLog
    /\ elections + last_index(node[n]) + 1 <= MaxWork
    /\ proposals < MaxProposals
    /\ c = proposals + 1
    /\ proposals' = c
    /\ Drive(n, propose(node[n], c).self, {}, {})
    /\ UNCHANGED elections

Heartbeat(n) ==
    /\ UNCHANGED <<elections, proposals>>
    /\ node[n].state = "Leader"
    /\ Drive(n, send_heartbeats(node[n]), {}, {})

Next ==
    \/ \E n \in DOMAIN node : ElectionTimeout(n)
    \/ \E n \in DOMAIN node, m \in msgs : HandleRequestVote(n, m)
    \/ \E n \in DOMAIN node, m \in msgs : HandleRequestVoteReply(n, m)
    \/ \E n, p \in DOMAIN node : RecordVote(n, p)
    \/ \E n \in DOMAIN node, m \in msgs : HandleAppendEntries(n, m)
    \/ \E n \in DOMAIN node, m \in msgs : HandleAppendEntriesReply(n, m)
    \/ \E n \in DOMAIN node, c \in Commands : Propose(n, c)
    \/ \E n \in DOMAIN node : Heartbeat(n)

Spec == Init /\ [][Next]_vars

\* ------------------------------------------------------------ claims
Nodes == DOMAIN node

SameEntry(e, f) == e.term = f.term /\ e.command = f.command

\* C1: election safety -- at most one node is ever in role Leader for a given
\* term: no term has BecameLeader events on two nodes, and a node in role
\* Leader has a BecameLeader event for its current term.
C1_ElectionSafety ==
    /\ \A a, b \in Nodes :
          a # b => \A i \in 1..Len(became[a]) : ~Contains(became[b], became[a][i])
    /\ \A a \in Nodes :
          node[a].state = "Leader" => Contains(became[a], node[a].current_term)

\* a Leader of a multi-node cluster together with a rival Candidate of its term
C1_Witness ==
    \E a, b \in Nodes :
        /\ a # b
        /\ node[a].state = "Leader"
        /\ node[b].state = "Candidate"
        /\ node[a].current_term = node[b].current_term

\* C2: log matching -- if the logs of two nodes hold an entry of the same term
\* at the same index, the logs agree (term and command) on every index up to it.
C2_LogMatching ==
    \A a, b \in Nodes :
        \A i \in 1..Min(Len(node[a].log), Len(node[b].log)) :
            node[a].log[i].term = node[b].log[i].term
            => \A j \in 1..i : SameEntry(node[a].log[j], node[b].log[j])

\* C3: leader completeness -- an entry some node has committed (index <= its
\* commit_index) is present, at the same index with the same term and command,
\* in the log of every Leader whose term is at least the committing node's.
C3_LeaderCompleteness ==
    \A a, l \in Nodes :
        (node[l].state = "Leader" /\ node[l].current_term >= node[a].current_term)
        => \A i \in 1..Min(node[a].commit_index, Len(node[a].log)) :
              /\ i <= Len(node[l].log)
              /\ SameEntry(node[l].log[i], node[a].log[i])

\* C4: state-machine safety -- the sequences of entries two nodes have emitted
\* in Committed events are prefix-comparable (same term and command at every
\* position both have emitted).
C4_StateMachineSafety ==
    \A a, b \in Nodes :
        \A i \in 1..Min(Len(applied[a]), Len(applied[b])) :
            SameEntry(applied[a][i], applied[b][i])

\* C5: Committed events are in strict log-index order -- on every node the
\* concatenation of the Committed slices emitted so far is exactly
\* log[1..last_applied].
C5_CommittedInLogOrder ==
    \A a \in Nodes :
        /\ Len(applied[a]) = node[a].last_applied
        /\ node[a].last_applied <= Len(node[a].log)
        /\ \A i \in 1..Len(applied[a]) : applied[a][i] = node[a].log[i]

\* C6: on every node last_applied <= commit_index <= last_index.
C6_IndexOrder ==
    \A a \in Nodes :
        /\ node[a].last_applied <= node[a].commit_index
        /\ node[a].commit_index <= last_index(node[a])

\* C7: a follower that accepts an AppendEntries request (its log matches at
\* prev_log_index/prev_log_term) replies success and afterwards holds the
\* entries sent at prev_log_index+1 .. prev_log_index+|entries|.
LogMatchesAt(self, args) ==
    \/ args.prev_log_index = 0
    \/ /\ args.prev_log_index <= last_index(self)
       /\ term_at(self, args.prev_log_index) = args.prev_log_term

C7_AcceptedEntriesStored ==
    [][\A n \in Nodes, m \in msgs :
          (/\ HandleAppendEntries(n, m)
           /\ m.args.term >= node[n].current_term
           /\ LogMatchesAt(node[n], m.args))
          => /\ handle_append_entries(node[n], m.args).reply.success
             /\ Len(node'[n].log) >= m.args.prev_log_index + Len(m.args.entries)
             /\ \A i \in 1..Len(m.args.entries) :
                   node'[n].log[m.args.prev_log_index + i] = m.args.entries[i]]_vars

\* C8: handle_request_vote rejects a request of a lower term without changing
\* the node; otherwise it adopts the request's term and grants the vote iff
\* voted_for (cleared when a higher term was adopted) is none or the candidate
\* and the candidate's log is at least as up-to-date as the local log; on a
\* grant voted_for is the candidate.
C8_RequestVoteContract ==
    [][\A n \in Nodes, m \in msgs :
          HandleRequestVote(n, m)
          => LET self == node[n]
                 args == m.args
                 reply == handle_request_vote(self, args).reply
                 my_last_term == IF self.log = <<>> THEN 0 ELSE self.log[Len(self.log)].term
                 vote_left == IF args.term > self.current_term THEN None ELSE self.voted_for
                 up_to_date == \/ args.last_log_term > my_last_term
                               \/ /\ args.last_log_term = my_last_term
                                  /\ args.last_log_index >= Len(self.log)
             IN IF args.term < self.current_term
                THEN /\ ~reply.vote_granted
                     /\ node' = node
                     /\ grants' = grants
                ELSE /\ node'[n].current_term = args.term
                     /\ reply.vote_granted
                            <=> ((vote_left = None \/ vote_left = Some(args.candidate_id))
                                 /\ up_to_date)
                     /\ reply.vote_granted
                            => /\ node'[n].voted_for = Some(args.candidate_id)
                               /\ <<args.term, n, args.candidate_id>> \in grants']_vars

\* a vote was granted and is still held, and a rejection is in flight
C8_Witness ==
    /\ \E g \in grants : node[g[2]].voted_for = Some(g[3]) /\ node[g[2]].current_term = g[1]
    /\ \E m \in msgs : m.type = "RequestVoteReply" /\ ~m.reply.vote_granted

\* C9: a Candidate becomes Leader exactly when the distinct nodes that granted
\* it a vote in its current term, itself included, reach quorum: a Candidate
\* holds fewer votes than quorum, every vote counted is a distinct node that
\* granted in that term, a Leader holds a quorum of them, and each term has at
\* most one BecameLeader event.
Votes(n) == {node[n].votes_received[i] : i \in 1..Len(node[n].votes_received)}

Granters(n, t) == {g[2] : g \in {h \in grants : h[1] = t /\ h[3] = n}} \cup {n}

C9_LeaderByQuorum ==
    \A n \in Nodes :
        /\ node[n].state = "Candidate" => Cardinality(Votes(n)) < (Len(peers) \div 2) + 1
        /\ node[n].state \in {"Candidate", "Leader"}
              => /\ Cardinality(Votes(n)) = Len(node[n].votes_received)
                 /\ Votes(n) \subseteq Granters(n, node[n].current_term)
        /\ node[n].state = "Leader"
              => /\ Cardinality(Votes(n)) >= (Len(peers) \div 2) + 1
                 /\ Contains(became[n], node[n].current_term)
        /\ \A i, j \in 1..Len(became[n]) : became[n][i] = became[n][j] => i = j
        /\ \A i \in 1..Len(became[n]) :
              Cardinality(Granters(n, became[n][i])) >= (Len(peers) \div 2) + 1

\* a Leader elected with a peer's vote, and a Candidate still short of quorum
C9_Witness ==
    \E a, b \in Nodes :
        /\ node[a].state = "Leader" /\ Len(node[a].votes_received) = 2
        /\ node[a].current_term = 2
        /\ node[b].state = "Candidate" /\ Len(node[b].votes_received) = 1

\* C10: in a cluster of size 1 an election timeout completes the election in
\* one step: role Leader, current_term + 1, exactly one BecameLeader, one
\* SendHeartbeats, no SendRequestVote and nothing handed to the network.
C10_SingleNodeElection ==
    [][\A n \in Nodes :
          (Len(peers) = 1 /\ ElectionTimeout(n))
          => LET evs == start_election(node[n]).pending_events
             IN /\ node'[n].state = "Leader"
                /\ node'[n].current_term = node[n].current_term + 1
                /\ CountKind(evs, "BecameLeader") = 1
                /\ CountKind(evs, "SendHeartbeats") = 1
                /\ CountKind(evs, "SendRequestVote") = 0
                /\ CountKind(evs, "SendAppendEntries") = 0
                /\ msgs' = {}
                /\ became'[n] = Append(became[n], node'[n].current_term)]_vars

\* the single node has won two elections in a row
C10_Witness ==
    /\ Len(peers) = 1
    /\ node[1].state = "Leader"
    /\ became[1] = <<1, 2>>

\* ====================================================================
\* The process table and scheduler of cell0/kernel/src/process/mod.rs.
\* pt holds the fields of struct ProcessTable; every method is an operator
\* from (table, arguments) to the new table and the value returned.
\* ====================================================================

\* ------------------------------------------------------------ bounds
MaxPid == 3          \* spawn is taken while next_pid <= MaxPid
MaxOps == 4          \* process-table calls in one run, schedule() aside
MaxSched == 3        \* schedule() calls in one run
MaxTime == 1         \* sleep deadlines and clock readings are 0..MaxTime
MaxExit == 1         \* exit codes are 0..MaxExit
SmallLimit == 1      \* the max_children a caller lowers a limit to

\* ------------------------------------------------------------ constants
NUM_PRIORITIES == 8

KERNEL_PID == 0

High == 1

Normal == 3

Kernel == 7

ProcessSpawn == 5

SignalSend == 12

Admin == 63

FileRead == 0

FileWrite == 1

MemoryAlloc == 7

Execute == 8

IpcCreate == 13

IpcJoin == 14

DEFAULT_TIME_SLICE == 10

time_slice_ms(priority) ==
    CASE priority = 0 -> 1
      [] priority = 1 -> 5
      [] priority = 2 -> 8
      [] priority = 3 -> DEFAULT_TIME_SLICE
      [] priority = 4 -> 20
      [] priority = 5 -> 50
      [] priority = 6 -> 100
      [] OTHER -> 1

\* ------------------------------------------------------------ Capabilities
\* the u64 `bits` is the set of the positions of its 1 bits
Capabilities_new == {}

has_admin(caps) == Admin \in caps

has(caps, cap) == has_admin(caps) \/ cap \in caps

grant_all == 0..63

derive(caps, wanted) == {cap \in wanted : has(caps, cap)}

InheritedCapabilities ==
    {FileRead, FileWrite, MemoryAlloc, Execute, SignalSend, IpcCreate, IpcJoin}

\* ------------------------------------------------------------ Process
ResourceLimits_default == [max_children |-> 32]

Process_new(pid, parent, priority) ==
    [pid |-> pid, parent |-> parent, state |-> "Ready", priority |-> priority,
     capabilities |-> Capabilities_new, limits |-> ResourceLimits_default,
     context_switches |-> 0, exit_code |-> None,
     time_slice_remaining |-> time_slice_ms(priority), sleep_until |-> None,
     children |-> <<>>, waiting_for |-> None]

has_capability(proc, cap) == has(proc.capabilities, cap)

\* ------------------------------------------------------------ ProcessTable
ProcessTable_new ==
    [processes |-> <<>>, next_pid |-> 1,
     ready_queues |-> [l \in 1..NUM_PRIORITIES |-> <<>>],
     current_pid |-> None, zombies |-> <<>>]

\* BTreeMap: insert, remove, and the keys
Pids(self) == DOMAIN self.processes

Insert(map, k, v) == [x \in DOMAIN map \cup {k} |-> IF x = k THEN v ELSE map[x]]

Remove(map, k) == [x \in DOMAIN map \ {k} |-> map[x]]

Ok(v) == [ok |-> TRUE, val |-> v, err |-> ""]

Err(e) == [ok |-> FALSE, val |-> <<>>, err |-> e]

\* ready_queues[priority as usize].push(pid)
Enqueue(queues, priority, pid) ==
    [queues EXCEPT ![priority + 1] = Append(@, pid)]

\* queue.retain(|&p| p != pid) on every queue
Retain(queues, pid) ==
    [l \in 1..NUM_PRIORITIES |-> SelectSeq(queues[l], LAMBDA p : p # pid)]

ProcessTable_init(self) ==
    LET kernel == [Process_new(KERNEL_PID, None, Kernel) EXCEPT
                       !.capabilities = grant_all, !.state = "Running"]
    IN [self EXCEPT !.processes = Insert(@, KERNEL_PID, kernel),
                    !.current_pid = Some(KERNEL_PID)]

Ret(self, result) == [pt |-> self, result |-> result]

\* the spawn of a table that does not count the parent's children
spawn_no_limit(self, parent_pid, priority) ==
    IF parent_pid \notin Pids(self) THEN Ret(self, Err("ParentNotFound"))
    ELSE LET parent == self.processes[parent_pid] IN
    IF ~has_capability(parent, ProcessSpawn) THEN Ret(self, Err("PermissionDenied"))
    ELSE LET pid == self.next_pid
             child == [Process_new(pid, Some(parent_pid), priority) EXCEPT
                          !.capabilities = derive(parent.capabilities, InheritedCapabilities)]
             inserted == Insert(self.processes, pid, child)
         IN Ret([self EXCEPT
                    !.next_pid = pid + 1,
                    !.processes = [inserted EXCEPT ![parent_pid].children = Append(@, pid)],
                    !.ready_queues = Enqueue(@, priority, pid)],
                Ok(<<pid>>))

spawn(self, parent_pid, priority) ==
    IF parent_pid \notin Pids(self) THEN Ret(self, Err("ParentNotFound"))
    ELSE LET parent == self.processes[parent_pid] IN
    IF ~has_capability(parent, ProcessSpawn) THEN Ret(self, Err("PermissionDenied"))
    ELSE IF Len(parent.children) >= parent.limits.max_children
    THEN Ret(self, Err("ResourceLimit"))
    ELSE LET pid == self.next_pid
             child == [Process_new(pid, Some(parent_pid), priority) EXCEPT
                          !.capabilities = derive(parent.capabilities, InheritedCapabilities)]
             inserted == Insert(self.processes, pid, child)
         IN Ret([self EXCEPT
                    !.next_pid = pid + 1,
                    !.processes = [inserted EXCEPT ![parent_pid].children = Append(@, pid)],
                    !.ready_queues = Enqueue(@, priority, pid)],
                Ok(<<pid>>))

\* terminate that leaves a waiting parent Blocked
terminate_no_wake(self, pid, exit_code) ==
    IF pid \notin Pids(self) THEN Ret(self, Err("ProcessNotFound"))
    ELSE Ret([self EXCEPT
                 !.processes = [@ EXCEPT ![pid].state = "Zombie",
                                         ![pid].exit_code = Some(exit_code)],
                 !.ready_queues = Retain(@, pid),
                 !.zombies = Append(@, pid)],
             Ok(<<>>))

terminate(self, pid, exit_code) ==
    IF pid \notin Pids(self) THEN Ret(self, Err("ProcessNotFound"))
    ELSE LET process == self.processes[pid]
             procs1 == [self.processes EXCEPT ![pid].state = "Zombie",
                                              ![pid].exit_code = Some(exit_code)]
             queues1 == Retain(self.ready_queues, pid)
             wakes == /\ process.parent # None
                      /\ process.parent[1] \in DOMAIN procs1
                      /\ procs1[process.parent[1]].waiting_for = Some(pid)
             parent_pid == process.parent[1]
         IN Ret([self EXCEPT
                    !.processes = IF wakes
                                  THEN [procs1 EXCEPT ![parent_pid].state = "Ready",
                                                      ![parent_pid].waiting_for = None]
                                  ELSE procs1,
                    !.ready_queues = IF wakes
                                     THEN Enqueue(queues1, procs1[parent_pid].priority,
                                                  parent_pid)
                                     ELSE queues1,
                    !.zombies = Append(@, pid)],
                Ok(<<>>))

\* the priorities whose ready queue is not empty
NonEmptyLevels(self) == {l \in 1..NUM_PRIORITIES : self.ready_queues[l] # <<>>}

\* schedule() that leaves the queue as it found it
schedule_no_rotate(self) ==
    IF NonEmptyLevels(self) = {} THEN Ret(self, None)
    ELSE LET l == CHOOSE x \in NonEmptyLevels(self) :
                      \A y \in NonEmptyLevels(self) : x <= y
         IN Ret(self, Some(Head(self.ready_queues[l])))

schedule(self) ==
    IF NonEmptyLevels(self) = {} THEN Ret(self, None)
    ELSE LET l == CHOOSE x \in NonEmptyLevels(self) :
                      \A y \in NonEmptyLevels(self) : x <= y
             pid == Head(self.ready_queues[l])
         IN Ret([self EXCEPT !.ready_queues[l] = Append(Tail(@), pid)], Some(pid))

context_switch(self, new_pid) ==
    LET demote == /\ self.current_pid # None
                  /\ self.current_pid[1] \in Pids(self)
                  /\ self.processes[self.current_pid[1]].state = "Running"
        procs1 == IF demote
                  THEN [self.processes EXCEPT
                           ![self.current_pid[1]].state = "Ready",
                           ![self.current_pid[1]].context_switches = @ + 1]
                  ELSE self.processes
        procs2 == IF new_pid \in DOMAIN procs1
                  THEN [procs1 EXCEPT
                           ![new_pid].state = "Running",
                           ![new_pid].time_slice_remaining =
                               time_slice_ms(procs1[new_pid].priority)]
                  ELSE procs1
    IN [self EXCEPT !.processes = procs2, !.current_pid = Some(new_pid)]

block(self, pid) ==
    IF pid \notin Pids(self) THEN Ret(self, Err("ProcessNotFound"))
    ELSE IF self.processes[pid].state = "Running"
    THEN Ret([self EXCEPT !.processes[pid].state = "Blocked"], Ok(<<>>))
    ELSE Ret(self, Ok(<<>>))

unblock(self, pid) ==
    IF pid \notin Pids(self) THEN Ret(self, Err("ProcessNotFound"))
    ELSE IF self.processes[pid].state = "Blocked"
    THEN Ret([self EXCEPT
                 !.processes[pid].state = "Ready",
                 !.ready_queues = Enqueue(@, self.processes[pid].priority, pid)],
             Ok(<<>>))
    ELSE Ret(self, Ok(<<>>))

sleep(self, pid, until) ==
    IF pid \notin Pids(self) THEN Ret(self, Err("ProcessNotFound"))
    ELSE Ret([self EXCEPT !.processes[pid].state = "Sleeping",
                          !.processes[pid].sleep_until = Some(until)],
             Ok(<<>>))

\* processes.iter_mut() visits the pids in increasing order
RECURSIVE wake_from(_, _, _)
wake_from(self, pid, current_time) ==
    IF pid >= self.next_pid THEN self
    ELSE IF /\ pid \in Pids(self)
            /\ self.processes[pid].state = "Sleeping"
            /\ self.processes[pid].sleep_until # None
            /\ current_time >= self.processes[pid].sleep_until[1]
    THEN wake_from([self EXCEPT
                       !.processes[pid].state = "Ready",
                       !.processes[pid].sleep_until = None,
                       !.ready_queues = Enqueue(@, self.processes[pid].priority, pid)],
                   pid + 1, current_time)
    ELSE wake_from(self, pid + 1, current_time)

wake_sleepers(self, current_time) == wake_from(self, KERNEL_PID, current_time)

\* the closure of zombies.retain: TRUE when the zombie is reaped
reapable(procs, pid) ==
    /\ pid \in DOMAIN procs
    /\ procs[pid].parent # None
    /\ procs[pid].parent[1] \in DOMAIN procs
    /\ procs[procs[pid].parent[1]].waiting_for = Some(pid)
    /\ procs[pid].exit_code # None

\* zombies.retain visits the list in order; acc = [procs, kept, reaped]
RECURSIVE reap_from(_, _, _)
reap_from(acc, zombies, i) ==
    IF i > Len(zombies) THEN acc
    ELSE LET pid == zombies[i] IN
         IF reapable(acc.procs, pid)
         THEN reap_from([procs |-> Remove(acc.procs, pid), kept |-> acc.kept,
                         reaped |-> Append(acc.reaped,
                                           <<pid, acc.procs[pid].exit_code[1]>>)],
                        zombies, i + 1)
         ELSE reap_from([acc EXCEPT !.kept = Append(@, pid)], zombies, i + 1)

reap_zombies(self) ==
    LET r == reap_from([procs |-> self.processes, kept |-> <<>>, reaped |-> <<>>],
                       self.zombies, 1)
    IN Ret([self EXCEPT !.processes = r.procs, !.zombies = r.kept], r.reaped)

\* send_signal without the check that the target is a child of the sender
send_signal_any_target(self, from, to, signal) ==
    IF from \notin Pids(self) THEN Ret(self, Err("ProcessNotFound"))
    ELSE IF ~has_capability(self.processes[from], SignalSend)
    THEN Ret(self, Err("PermissionDenied"))
    ELSE IF to \notin Pids(self) THEN Ret(self, Err("ProcessNotFound"))
    ELSE CASE signal = "Terminate" ->
                  Ret([self EXCEPT !.processes[to].state = "Terminated"], Ok(<<>>))
           [] signal = "Stop" ->
                  Ret([self EXCEPT !.processes[to].state = "Stopped"], Ok(<<>>))
           [] signal = "Continue" /\ self.processes[to].state = "Stopped" ->
                  Ret([self EXCEPT
                          !.processes[to].state = "Ready",
                          !.ready_queues = Enqueue(@, self.processes[to].priority, to)],
                      Ok(<<>>))
           [] OTHER -> Ret(self, Ok(<<>>))

send_signal(self, from, to, signal) ==
    IF from \notin Pids(self) THEN Ret(self, Err("ProcessNotFound"))
    ELSE LET sender == self.processes[from] IN
    IF ~has_capability(sender, SignalSend) THEN Ret(self, Err("PermissionDenied"))
    ELSE IF ~(has_admin(sender.capabilities) \/ Contains(sender.children, to))
    THEN Ret(self, Err("PermissionDenied"))
    ELSE IF to \notin Pids(self) THEN Ret(self, Err("ProcessNotFound"))
    ELSE LET target == self.processes[to] IN
         CASE signal = "Terminate" ->
                  Ret([self EXCEPT !.processes[to].state = "Terminated"], Ok(<<>>))
           [] signal = "Stop" ->
                  Ret([self EXCEPT !.processes[to].state = "Stopped"], Ok(<<>>))
           [] signal = "Continue" /\ target.state = "Stopped" ->
                  Ret([self EXCEPT
                          !.processes[to].state = "Ready",
                          !.ready_queues = Enqueue(@, target.priority, to)],
                      Ok(<<>>))
           [] OTHER -> Ret(self, Ok(<<>>))

\* the free function waitpid(pid): the caller is the current process
waitpid(self, pid) ==
    IF self.current_pid = None THEN Ret(self, Err("ProcessNotFound"))
    ELSE LET current == self.current_pid[1] IN
    IF current \in Pids(self) /\ ~Contains(self.processes[current].children, pid)
    THEN Ret(self, Err("PermissionDenied"))
    ELSE IF /\ pid \in Pids(self)
            /\ self.processes[pid].state = "Zombie"
            /\ self.processes[pid].exit_code # None
    THEN Ret([self EXCEPT !.zombies = SelectSeq(@, LAMBDA z : z # pid),
                          !.processes = Remove(@, pid)],
             Ok(<<pid, self.processes[pid].exit_code[1]>>))
    ELSE IF current \in Pids(self)
    THEN Ret([self EXCEPT !.processes[current].waiting_for = Some(pid),
                          !.processes[current].state = "Blocked"],
             Err("InvalidState"))
    ELSE Ret(self, Err("InvalidState"))

\* callers reach the pub fields through get_process_mut(pid)
grant_capability(self, pid, cap) ==
    IF pid \in Pids(self)
    THEN [self EXCEPT !.processes[pid].capabilities = @ \cup {cap}] ELSE self

revoke_capability(self, pid, cap) ==
    IF pid \in Pids(self)
    THEN [self EXCEPT !.processes[pid].capabilities = @ \ {cap}] ELSE self

set_max_children(self, pid, n) ==
    IF pid \in Pids(self)
    THEN [self EXCEPT !.processes[pid].limits.max_children = n] ELSE self

\* ------------------------------------------------------------ process actions
PidArgs == 0..MaxPid

SpawnPriorities == {High, Normal}

Signals == {"Terminate", "Stop", "Continue", "Kill"}

Times == 0..MaxTime

ExitCodes == 0..MaxExit

\* the Raft cluster is not run by the kernel-table specifications
RaftIdle ==
    /\ peers = <<>>
    /\ node = <<>>
    /\ msgs = {}
    /\ became = <<>>
    /\ grants = {}
    /\ applied = <<>>
    /\ elections = 0
    /\ proposals = 0

RaftVars == <<peers, node, msgs, became, grants, applied, elections, proposals>>

\* PROCESS_TABLE after process::init()
ProcInit ==
    /\ RaftIdle
    /\ pt = ProcessTable_init(ProcessTable_new)
    /\ plog = [op |-> "init", args |-> <<>>, result |-> Ok(<<>>), steps |-> 0,
               scheds |-> 0, run |-> <<>>, base |-> ProcessTable_new.ready_queues,
               issued |-> {KERNEL_PID}, released |-> {}]
    /\ sm = Idle
    /\ slog = Idle
    /\ cv = Idle
    /\ ipc = Idle
    /\ MemoryIdle
    /\ rn = Idle

\* terminate(pid, exit_code) finds the parent of pid Blocked in waitpid(pid)
ReleasesWaiter(pid) ==
    /\ pid \in Pids(pt)
    /\ pt.processes[pid].parent # None
    /\ pt.processes[pid].parent[1] \in Pids(pt)
    /\ pt.processes[pt.processes[pid].parent[1]].state = "Blocked"
    /\ pt.processes[pt.processes[pid].parent[1]].waiting_for = Some(pid)

\* One call that left the table as r.pt and returned r.result.  plog.run is
\* the pids returned by the schedule() calls made since the last other call,
\* plog.base the ready queues as that call left them, plog.issued the pids
\* handed out so far, plog.released the <<pid, exit_code>> of the children
\* whose terminate found the parent waiting for them.
Call(op, args, r) ==
    /\ IF op = "schedule" THEN plog.scheds < MaxSched ELSE plog.steps < MaxOps
    /\ pt' = r.pt
    /\ plog' = [op |-> op, args |-> args, result |-> r.result,
                steps |-> IF op = "schedule" THEN plog.steps ELSE plog.steps + 1,
                scheds |-> IF op = "schedule" THEN plog.scheds + 1 ELSE plog.scheds,
                run |-> IF op = "schedule" THEN plog.run \o r.result ELSE <<>>,
                base |-> IF op = "schedule" THEN plog.base ELSE r.pt.ready_queues,
                issued |-> IF op = "spawn" /\ r.result.ok
                           THEN plog.issued \cup {r.result.val[1]} ELSE plog.issued,
                released |-> IF op = "terminate" /\ ReleasesWaiter(args[1])
                             THEN plog.released \cup {<<args[1], args[2]>>}
                             ELSE plog.released]
    /\ UNCHANGED <<RaftVars, sm, slog, cv, ipc, heap, frames, rn>>

Spawn(parent_pid, priority) ==
    /\ pt.next_pid <= MaxPid
    /\ Call("spawn", <<parent_pid, priority>>, spawn(pt, parent_pid, priority))

Terminate(pid, exit_code) ==
    Call("terminate", <<pid, exit_code>>, terminate(pt, pid, exit_code))

Schedule == Call("schedule", <<>>, schedule(pt))

ContextSwitch(new_pid) ==
    Call("context_switch", <<new_pid>>, Ret(context_switch(pt, new_pid), <<>>))

Block(pid) == Call("block", <<pid>>, block(pt, pid))

Unblock(pid) == Call("unblock", <<pid>>, unblock(pt, pid))

Sleep(pid, until) == Call("sleep", <<pid, until>>, sleep(pt, pid, until))

WakeSleepers(now) ==
    Call("wake_sleepers", <<now>>, Ret(wake_sleepers(pt, now), <<>>))

ReapZombies == Call("reap_zombies", <<>>, reap_zombies(pt))

SendSignal(from, to, signal) ==
    Call("send_signal", <<from, to, signal>>, send_signal(pt, from, to, signal))

Waitpid(pid) == Call("waitpid", <<pid>>, waitpid(pt, pid))

GrantCapability(pid, cap) ==
    /\ pid \in Pids(pt)
    /\ cap \notin pt.processes[pid].capabilities
    /\ Call("grant_capability", <<pid, cap>>, Ret(grant_capability(pt, pid, cap), <<>>))

RevokeCapability(pid, cap) ==
    /\ pid \in Pids(pt)
    /\ cap \in pt.processes[pid].capabilities
    /\ Call("revoke_capability", <<pid, cap>>, Ret(revoke_capability(pt, pid, cap), <<>>))

SetMaxChildren(pid) ==
    /\ pid \in Pids(pt)
    /\ pt.processes[pid].limits.max_children # SmallLimit
    /\ Call("set_max_children", <<pid, SmallLimit>>,
            Ret(set_max_children(pt, pid, SmallLimit), <<>>))

ProcNext ==
    \/ \E p \in PidArgs, l \in SpawnPriorities : Spawn(p, l)
    \/ \E p \in PidArgs, e \in ExitCodes : Terminate(p, e)
    \/ Schedule
    \/ \E p \in PidArgs : ContextSwitch(p)
    \/ \E p \in PidArgs : Block(p)
    \/ \E p \in PidArgs : Unblock(p)
    \/ \E p \in PidArgs, t \in Times : Sleep(p, t)
    \/ \E t \in Times : WakeSleepers(t)
    \/ ReapZombies
    \/ \E f \in PidArgs, p \in PidArgs, g \in Signals : SendSignal(f, p, g)
    \/ \E p \in PidArgs : Waitpid(p)
    \/ \E p \in PidArgs : GrantCapability(p, ProcessSpawn)
    \/ \E p \in PidArgs : RevokeCapability(p, SignalSend)
    \/ \E p \in PidArgs : SetMaxChildren(p)

ProcSpec == ProcInit /\ [][ProcNext]_vars

\* ------------------------------------------------------------ claims C11..C17
InState(st) == {p \in Pids(pt) : pt.processes[p].state = st}

\* the number of times pid stands in the ready queue of level l
Occurrences(l, pid) ==
    Cardinality({i \in 1..Len(pt.ready_queues[l]) : pt.ready_queues[l][i] = pid})

\* C11: after init and after any sequence of process-table operations exactly
\* one process has state Running.
C11_ExactlyOneRunning == Cardinality(InState("Running")) = 1

\* C12: ready-queue consistency: pid P stands in ready queue L iff P is Ready
\* with priority L, and then exactly once.
C12_ReadyQueueConsistency ==
    \A l \in 1..NUM_PRIORITIES, p \in PidArgs :
        LET ready == /\ p \in Pids(pt)
                     /\ pt.processes[p].state = "Ready"
                     /\ pt.processes[p].priority + 1 = l
        IN Occurrences(l, p) = IF ready THEN 1 ELSE 0

\* the queue q after k calls of schedule() that each took its head to its tail
RECURSIVE Rotated(_, _)
Rotated(q, k) == IF k = 0 \/ q = <<>> THEN q ELSE Rotated(Append(Tail(q), Head(q)), k - 1)

\* C13: over repeated schedule() calls with no other call in between, the
\* pids returned are those of the highest-priority non-empty ready queue in
\* cyclic FIFO order, each moved to the tail; no other level is touched.
C13_RoundRobin ==
    LET levels == {l \in 1..NUM_PRIORITIES : plog.base[l] # <<>>}
    IN IF levels = {}
       THEN plog.run = <<>> /\ pt.ready_queues = plog.base
       ELSE LET top == CHOOSE x \in levels : \A y \in levels : x <= y
                q == plog.base[top]
            IN /\ \A i \in 1..Len(plog.run) : plog.run[i] = q[((i - 1) % Len(q)) + 1]
               /\ plog.op = "schedule" =>
                     /\ Len(plog.run) > 0
                     /\ pt.ready_queues =
                            [plog.base EXCEPT ![top] = Rotated(q, Len(plog.run))]

C13_Witness ==
    /\ plog.run = <<1, 2, 1>>
    /\ plog.base[High + 1] = <<1, 2>>
    /\ plog.base[Normal + 1] = <<3>>

\* C14: spawn succeeds only if the parent exists, holds ProcessSpawn and has
\* fewer than max_children children; otherwise it returns ParentNotFound,
\* PermissionDenied or ResourceLimit and changes nothing.  On success the pid
\* is greater than every pid issued before, the child is Ready, is appended
\* to the ready queue of its priority and to the children of its parent.
C14_SpawnContract ==
    [][plog'.op = "spawn" =>
        LET parent_pid == plog'.args[1]
            priority == plog'.args[2]
            r == plog'.result
            exists == parent_pid \in Pids(pt)
            permitted == exists /\ has_capability(pt.processes[parent_pid], ProcessSpawn)
            room == /\ permitted
                    /\ Len(pt.processes[parent_pid].children)
                           < pt.processes[parent_pid].limits.max_children
        IN /\ r.ok <=> room
           /\ ~exists => r.err = "ParentNotFound"
           /\ exists /\ ~permitted => r.err = "PermissionDenied"
           /\ permitted /\ ~room => r.err = "ResourceLimit"
           /\ ~r.ok => pt' = pt
           /\ r.ok =>
                LET pid == r.val[1]
                IN /\ \A q \in plog.issued : pid > q
                   /\ pid \notin Pids(pt)
                   /\ pid \in Pids(pt')
                   /\ pt'.processes[pid].state = "Ready"
                   /\ pt'.processes[pid].priority = priority
                   /\ pt'.ready_queues =
                          [pt.ready_queues EXCEPT ![priority + 1] = Append(@, pid)]
                   /\ pt'.processes[parent_pid].children =
                          Append(pt.processes[parent_pid].children, pid)
    ]_vars

C14_Witness ==
    /\ plog.op = "spawn"
    /\ plog.result.ok
    /\ plog.result.val = <<2>>
    /\ Cardinality(plog.issued) = 3

\* C15: send_signal takes effect only if the sender holds SignalSend and
\* either holds Admin or has the target among its children; in every other
\* case it returns PermissionDenied or ProcessNotFound and the target's
\* state and all ready queues are unchanged.
C15_SignalPermission ==
    [][plog'.op = "send_signal" =>
        LET from == plog'.args[1]
            to == plog'.args[2]
            r == plog'.result
            allowed == /\ from \in Pids(pt)
                       /\ has(pt.processes[from].capabilities, SignalSend)
                       /\ \/ Admin \in pt.processes[from].capabilities
                          \/ Contains(pt.processes[from].children, to)
        IN ~allowed =>
              /\ ~r.ok
              /\ r.err \in {"PermissionDenied", "ProcessNotFound"}
              /\ pt'.ready_queues = pt.ready_queues
              /\ to \in Pids(pt) =>
                    /\ to \in Pids(pt')
                    /\ pt'.processes[to].state = pt.processes[to].state
    ]_vars

\* a sender that holds SignalSend is refused a target that is not its child
C15_Witness ==
    /\ plog.op = "send_signal"
    /\ plog.result.err = "PermissionDenied"
    /\ plog.args[1] \in Pids(pt)
    /\ SignalSend \in pt.processes[plog.args[1]].capabilities
    /\ plog.args[2] \in Pids(pt)

\* C16: after terminate(pid, exit_code) on an existing process it is a
\* Zombie with the exit code recorded, stands in no ready queue, is in the
\* zombies list, and a parent that was Blocked waiting for it is Ready and
\* stands in the ready queue of its priority.
C16_TerminateEffects ==
    [][plog'.op = "terminate" /\ plog'.args[1] \in Pids(pt) =>
        LET pid == plog'.args[1]
            exit_code == plog'.args[2]
        IN /\ plog'.result.ok
           /\ pid \in Pids(pt')
           /\ pt'.processes[pid].state = "Zombie"
           /\ pt'.processes[pid].exit_code = Some(exit_code)
           /\ \A l \in 1..NUM_PRIORITIES : ~Contains(pt'.ready_queues[l], pid)
           /\ Contains(pt'.zombies, pid)
           /\ ReleasesWaiter(pid) =>
                 LET parent_pid == pt.processes[pid].parent[1]
                 IN /\ pt'.processes[parent_pid].state = "Ready"
                    /\ Contains(pt'.ready_queues[pt'.processes[parent_pid].priority + 1],
                                parent_pid)
    ]_vars

\* spawn, waitpid on the child, terminate of the child: the waiting kernel
\* process is back in the ready queue of its priority
C16_Witness ==
    /\ plog.op = "terminate"
    /\ plog.steps = 3
    /\ plog.released # {}
    /\ pt.processes[KERNEL_PID].state = "Ready"
    /\ Contains(pt.ready_queues[Kernel + 1], KERNEL_PID)

\* C17: a child whose terminate released its parent from waitpid is collected
\* by the next reap_zombies(): the call returns (child, exit code) and takes
\* the child out of the zombies list and of the process table.
C17_ReleasedZombieReaped ==
    [][plog'.op = "reap_zombies" =>
        \A z \in plog.released :
            (/\ z[1] \in Pids(pt)
             /\ Contains(pt.zombies, z[1])
             /\ pt.processes[z[1]].state = "Zombie"
             /\ pt.processes[z[1]].exit_code = Some(z[2]))
            => /\ Contains(plog'.result, z)
               /\ z[1] \notin Pids(pt')
               /\ ~Contains(pt'.zombies, z[1])
    ]_vars

\* ====================================================================
\* The authorization manager of cell0/kernel/src/sypas/mod.rs.
\* sm holds the fields of struct SypasManager; every method is an operator
\* from (manager, arguments) to the new manager and the value returned.
\* ====================================================================

\* ------------------------------------------------------------ bounds
MaxSypasOps == 4     \* SypasManager calls in one run
MaxOwner == 2        \* process ids are 1..MaxOwner

\* ------------------------------------------------------------ constants
NetworkCap == 4

File == 0

NetworkEndpoint == 3

ProcessResource == 4

READ == {"read"}

READ_WRITE == {"read", "write"}

\* the resource id b"*", as its bytes
Star == <<42>>

\* ResourceId::new(resource_type, id)
ResourceId(resource_type, id) == [resource_type |-> resource_type, id |-> id]

SecurityPolicy(resource, required_caps, default_rights) ==
    [resource |-> resource, required_caps |-> required_caps,
     default_rights |-> default_rights]

AuditEntry(process_id, action, resource, allowed) ==
    [timestamp |-> 0, process_id |-> process_id, action |-> action,
     resource |-> resource, allowed |-> allowed,
     reason |-> IF allowed THEN None ELSE Some("Access denied")]

CapabilityEntry(handle, owner, cap, delegated_from) ==
    [handle |-> handle, owner |-> owner, cap |-> cap,
     delegated_from |-> delegated_from, delegated_to |-> <<>>,
     revoked |-> FALSE, created_at |-> 0]

SypasManager_new ==
    [capability_store |-> <<>>, next_handle |-> 1, policies |-> <<>>,
     audit_log |-> <<>>, enforcement_mode |-> "Enforcing"]

add_default_policies(self) ==
    [self EXCEPT !.policies = @ \o
        <<SecurityPolicy(ResourceId(File, Star), <<FileRead>>, READ),
          SecurityPolicy(ResourceId(NetworkEndpoint, Star), <<NetworkCap>>, READ_WRITE)>>]

SypasManager_init(self) == add_default_policies(self)

set_enforcement_mode(self, mode) == [self EXCEPT !.enforcement_mode = mode]

\* the loop returns true at the first policy of the resource's type
verify_access(self, process_id, resource, rights) ==
    \E i \in 1..Len(self.policies) :
        self.policies[i].resource.resource_type = resource.resource_type

SOk(v) == [ok |-> TRUE, val |-> v, err |-> ""]

SErr(e) == [ok |-> FALSE, val |-> <<>>, err |-> e]

SRet(self, result) == [sm |-> self, result |-> result]

\* check_access with Auditing enforced like Enforcing
check_access_auditing_denies(self, process_id, resource, requested_rights) ==
    LET allowed == IF self.enforcement_mode = "Permissive" THEN TRUE
                   ELSE verify_access(self, process_id, resource, requested_rights)
        s1 == [self EXCEPT !.audit_log =
                  Append(@, AuditEntry(process_id, "ResourceAccess", resource, allowed))]
    IN SRet(s1, IF allowed THEN SOk(<<>>) ELSE SErr("AccessDenied"))

\* check_access that logs only the accesses it allows
check_access_unlogged_denial(self, process_id, resource, requested_rights) ==
    LET allowed == IF self.enforcement_mode = "Permissive" THEN TRUE
                   ELSE verify_access(self, process_id, resource, requested_rights)
        s1 == IF allowed
              THEN [self EXCEPT !.audit_log =
                       Append(@, AuditEntry(process_id, "ResourceAccess", resource, allowed))]
              ELSE self
    IN SRet(s1, IF allowed \/ self.enforcement_mode = "Auditing"
                THEN SOk(<<>>) ELSE SErr("AccessDenied"))

check_access(self, process_id, resource, requested_rights) ==
    LET allowed == IF self.enforcement_mode = "Permissive" THEN TRUE
                   ELSE verify_access(self, process_id, resource, requested_rights)
        s1 == [self EXCEPT !.audit_log =
                  Append(@, AuditEntry(process_id, "ResourceAccess", resource, allowed))]
    IN SRet(s1, IF allowed \/ self.enforcement_mode = "Auditing"
                THEN SOk(<<>>) ELSE SErr("AccessDenied"))

sypas_grant_capability(self, process_id, cap) ==
    LET handle == self.next_handle
    IN SRet([self EXCEPT
                !.next_handle = handle + 1,
                !.capability_store = Append(@, CapabilityEntry(handle, process_id, cap, None)),
                !.audit_log = Append(@, AuditEntry(process_id, "CapabilityDelegation",
                                         ResourceId(ProcessResource, <<process_id>>), TRUE))],
            SOk(<<handle>>))

\* iter().find: the position of the first entry that satisfies the test, or 0
FirstEntry(store, Test(_)) ==
    LET hits == {i \in 1..Len(store) : Test(store[i])}
    IN IF hits = {} THEN 0 ELSE CHOOSE i \in hits : \A j \in hits : i <= j

\* revoke_capability that does not find a handle already revoked
revoke_capability_once(self, handle) ==
    LET at == FirstEntry(self.capability_store,
                         LAMBDA e : e.handle = handle /\ ~e.revoked)
    IN IF at = 0 THEN SRet(self, SErr("CapabilityNotFound"))
       ELSE SRet([self EXCEPT
                     !.capability_store[at].revoked = TRUE,
                     !.audit_log =
                         Append(@, AuditEntry(self.capability_store[at].owner,
                                              "CapabilityRevocation",
                                              ResourceId(ProcessResource,
                                                         <<self.capability_store[at].owner>>),
                                              TRUE))],
                 SOk(<<>>))

RECURSIVE sypas_revoke_capability(_, _)
RECURSIVE revoke_each(_, _, _)
\* for delegated in delegated_to { let _ = self.revoke_capability(delegated); }
revoke_each(self, delegated_to, i) ==
    IF i > Len(delegated_to) THEN self
    ELSE revoke_each(sypas_revoke_capability(self, delegated_to[i]).sm, delegated_to, i + 1)

sypas_revoke_capability(self, handle) ==
    LET at == FirstEntry(self.capability_store, LAMBDA e : e.handle = handle)
    IN IF at = 0 THEN SRet(self, SErr("CapabilityNotFound"))
       ELSE LET owner == self.capability_store[at].owner
                delegated_to == self.capability_store[at].delegated_to
                s1 == [self EXCEPT !.capability_store[at].revoked = TRUE]
                s2 == revoke_each(s1, delegated_to, 1)
            IN SRet([s2 EXCEPT !.audit_log =
                        Append(@, AuditEntry(owner, "CapabilityRevocation",
                                             ResourceId(ProcessResource, <<owner>>), TRUE))],
                    SOk(<<>>))

delegate_capability(self, from_handle, to_process) ==
    LET at == FirstEntry(self.capability_store,
                         LAMBDA e : e.handle = from_handle /\ ~e.revoked)
    IN IF at = 0 THEN SRet(self, SErr("CapabilityNotFound"))
       ELSE LET new_handle == self.next_handle
                original == self.capability_store[at]
            IN SRet([self EXCEPT
                        !.next_handle = new_handle + 1,
                        !.capability_store =
                            Append(@, CapabilityEntry(new_handle, to_process, original.cap,
                                                      Some(from_handle)))],
                    SOk(<<new_handle>>))

clear_audit_log(self) == [self EXCEPT !.audit_log = <<>>]

\* ------------------------------------------------------------ SYPAS actions
Owners == 1..MaxOwner

Modes == {"Permissive", "Auditing", "Enforcing"}

ResourceTypes == {File, NetworkEndpoint, ProcessResource}

RightsArgs == {READ, READ_WRITE}

CapArgs == {FileRead, NetworkCap}

HandleArgs == 1..MaxSypasOps

\* the manager after sypas::init()
SypasInit ==
    /\ RaftIdle
    /\ pt = Idle
    /\ plog = Idle
    /\ sm = SypasManager_init(SypasManager_new)
    /\ slog = [op |-> "init", args |-> <<>>, result |-> SOk(<<>>), steps |-> 0]
    /\ cv = Idle
    /\ ipc = Idle
    /\ MemoryIdle
    /\ rn = Idle

SCall(op, args, r) ==
    /\ slog.steps < MaxSypasOps
    /\ sm' = r.sm
    /\ slog' = [op |-> op, args |-> args, result |-> r.result, steps |-> slog.steps + 1]
    /\ UNCHANGED <<RaftVars, pt, plog, cv, ipc, heap, frames, rn>>

SetEnforcementMode(mode) ==
    /\ mode # sm.enforcement_mode
    /\ SCall("set_enforcement_mode", <<mode>>, SRet(set_enforcement_mode(sm, mode), <<>>))

CheckAccess(pid, ty, rights) ==
    SCall("check_access", <<pid, ty, rights>>,
          check_access(sm, pid, ResourceId(ty, Star), rights))

SypasGrant(pid, cap) ==
    SCall("grant_capability", <<pid, cap>>, sypas_grant_capability(sm, pid, cap))

SypasRevoke(handle) ==
    SCall("revoke_capability", <<handle>>, sypas_revoke_capability(sm, handle))

Delegate(handle, pid) ==
    SCall("delegate_capability", <<handle, pid>>, delegate_capability(sm, handle, pid))

ClearAuditLog ==
    /\ sm.audit_log # <<>>
    /\ SCall("clear_audit_log", <<>>, SRet(clear_audit_log(sm), <<>>))

SypasNext ==
    \/ \E mode \in Modes : SetEnforcementMode(mode)
    \/ \E p \in Owners, ty \in ResourceTypes, r \in RightsArgs : CheckAccess(p, ty, r)
    \/ \E p \in Owners, c \in CapArgs : SypasGrant(p, c)
    \/ \E h \in HandleArgs : SypasRevoke(h)
    \/ \E h \in HandleArgs, p \in Owners : Delegate(h, p)
    \/ ClearAuditLog

SypasSpec == SypasInit /\ [][SypasNext]_vars

\* ------------------------------------------------------------ claims C18..C20
\* the handles of the delegation subtree of the handles in acc: the store
\* holds every handle after the handle it was delegated from
RECURSIVE Subtree(_, _, _)
Subtree(store, i, acc) ==
    IF i > Len(store) THEN acc
    ELSE Subtree(store, i + 1,
                 IF /\ store[i].delegated_from # None
                    /\ store[i].delegated_from[1] \in acc
                 THEN acc \cup {store[i].handle} ELSE acc)

\* C18: cascading revoke: after revoke(h) every handle delegated from h, or
\* from a handle delegated from h, and so on, is revoked, in that one call.
C18_CascadingRevoke ==
    [][slog'.op = "revoke_capability" /\ slog'.result.ok =>
        LET doomed == Subtree(sm.capability_store, 1, {slog'.args[1]})
        IN \A i \in 1..Len(sm'.capability_store) :
               sm'.capability_store[i].handle \in doomed
                   => sm'.capability_store[i].revoked
    ]_vars

\* the capabilities process_id holds through handles that are not revoked
CapabilitySet(process_id) ==
    {sm.capability_store[i].cap :
        i \in {j \in 1..Len(sm.capability_store) :
                  /\ sm.capability_store[j].owner = process_id
                  /\ ~sm.capability_store[j].revoked}}

\* C19: in Enforcing mode check_access returns Ok only if there is a policy
\* for the resource's type, the capability set of pid holds every capability
\* the policy requires and the policy's default rights include every right
\* requested; with no policy for the type it returns AccessDenied.
C19_EnforcingAccess ==
    [][slog'.op = "check_access" /\ sm.enforcement_mode = "Enforcing" =>
        LET pid == slog'.args[1]
            rights == slog'.args[3]
            at == FirstEntry(sm.policies,
                             LAMBDA q : q.resource.resource_type = slog'.args[2])
        IN /\ slog'.result.ok =>
                 /\ at # 0
                 /\ \A k \in 1..Len(sm.policies[at].required_caps) :
                        has(CapabilitySet(pid), sm.policies[at].required_caps[k])
                 /\ rights \subseteq sm.policies[at].default_rights
           /\ at = 0 => slog'.result.err = "AccessDenied"
    ]_vars

\* C20: check_access by enforcement mode: Permissive returns Ok; Auditing
\* returns Ok and its audit entry records the decision of the verifier;
\* Enforcing returns Ok iff the decision is to allow, else AccessDenied.
C20_ModeDecides ==
    [][slog'.op = "check_access" =>
        LET mode == sm.enforcement_mode
            r == slog'.result
            entry == sm'.audit_log[Len(sm'.audit_log)]
            decision == verify_access(sm, slog'.args[1],
                                      ResourceId(slog'.args[2], Star), slog'.args[3])
        IN /\ Len(sm'.audit_log) = Len(sm.audit_log) + 1
           /\ mode = "Permissive" => r.ok /\ entry.allowed
           /\ mode = "Auditing" => r.ok /\ (entry.allowed <=> decision)
           /\ mode = "Enforcing" =>
                 /\ entry.allowed <=> decision
                 /\ r.ok <=> decision
                 /\ ~r.ok => r.err = "AccessDenied"
    ]_vars

\* an access the verifier denies is let through in Auditing mode
C20_Witness ==
    /\ slog.op = "check_access"
    /\ sm.enforcement_mode = "Auditing"
    /\ slog.result.ok
    /\ ~sm.audit_log[Len(sm.audit_log)].allowed

\* ------------------------------------------------------------ claims C21, C22
\* C21: every check_access, in every mode and whatever it returns, appends
\* exactly one audit entry that carries the call's pid, resource and the
\* decision computed; the entries before it are unchanged.
C21_OneAuditEntry ==
    [][slog'.op = "check_access" =>
        LET resource == ResourceId(slog'.args[2], Star)
            decision == IF sm.enforcement_mode = "Permissive" THEN TRUE
                        ELSE verify_access(sm, slog'.args[1], resource, slog'.args[3])
            n == Len(sm.audit_log)
        IN /\ Len(sm'.audit_log) = n + 1
           /\ SubSeq(sm'.audit_log, 1, n) = sm.audit_log
           /\ sm'.audit_log[n + 1].process_id = slog'.args[1]
           /\ sm'.audit_log[n + 1].resource = resource
           /\ sm'.audit_log[n + 1].allowed = decision
           /\ sm'.audit_log[n + 1].action = "ResourceAccess"
    ]_vars

\* a denied access is logged behind an earlier entry
C21_Witness ==
    /\ slog.op = "check_access"
    /\ slog.result.err = "AccessDenied"
    /\ Len(sm.audit_log) >= 2
    /\ ~sm.audit_log[Len(sm.audit_log)].allowed

\* handle is in the store and revoked
IsRevoked(handle) ==
    \E i \in 1..Len(sm.capability_store) :
        sm.capability_store[i].handle = handle /\ sm.capability_store[i].revoked

\* C22: revocation is idempotent: revoke(h) of a handle already revoked
\* returns Ok and leaves the revoked flag and the delegation links of every
\* handle as the first revoke(h) left them.
C22_RevokeIdempotent ==
    [][slog'.op = "revoke_capability" /\ IsRevoked(slog'.args[1]) =>
        /\ slog'.result.ok
        /\ sm'.capability_store = sm.capability_store
        /\ sm'.next_handle = sm.next_handle
    ]_vars

\* the same handle revoked twice: two CapabilityRevocation entries of one handle
C22_Witness ==
    /\ slog.op = "revoke_capability"
    /\ slog.result.ok
    /\ Len(sm.capability_store) = 1
    /\ Cardinality({i \in 1..Len(sm.audit_log) :
                       sm.audit_log[i].action = "CapabilityRevocation"}) = 2

\* ====================================================================
\* A Capabilities value of cell0/kernel/src/process/mod.rs on its own:
\* cv.bits is the value, cv.last the last call made on it.
\* ====================================================================
Capabilities_set(caps, cap) == caps \cup {cap}

Capabilities_clear(caps, cap) == caps \ {cap}

revoke_all == {}

\* (self.bits & !other.bits) == 0
is_subset_of(caps, other) == caps \subseteq other

CapUniverse == {FileRead, FileWrite, ProcessSpawn, Admin}

CapInit ==
    /\ RaftIdle
    /\ pt = Idle
    /\ plog = Idle
    /\ sm = Idle
    /\ slog = Idle
    /\ ipc = Idle
    /\ MemoryIdle
    /\ rn = Idle
    /\ cv = [bits |-> Capabilities_new, last |-> [op |-> "new", args |-> {}, out |-> {}]]

CapCall(op, args, bits, out) ==
    /\ cv' = [bits |-> bits, last |-> [op |-> op, args |-> args, out |-> out]]
    /\ UNCHANGED <<RaftVars, pt, plog, sm, slog, ipc, heap, frames, rn>>

CapSet(cap) == CapCall("set", {cap}, Capabilities_set(cv.bits, cap), {})

CapClear(cap) == CapCall("clear", {cap}, Capabilities_clear(cv.bits, cap), {})

CapGrantAll == CapCall("grant_all", {}, grant_all, {})

CapRevokeAll == CapCall("revoke_all", {}, revoke_all, {})

CapDerive(wanted) == CapCall("derive", wanted, cv.bits, derive(cv.bits, wanted))

CapNext ==
    \/ \E cap \in CapUniverse : CapSet(cap)
    \/ \E cap \in CapUniverse : CapClear(cap)
    \/ CapGrantAll
    \/ CapRevokeAll
    \/ \E wanted \in SUBSET CapUniverse : CapDerive(wanted)

CapSpec == CapInit /\ [][CapNext]_vars

\* C23: capability attenuation: derive(S, T) is S \cap T for every S, also
\* one that holds Admin, so the result is a subset of S (is_subset_of) and
\* deriving it again from T gives the same set.
C23_DeriveAttenuates ==
    cv.last.op = "derive" =>
        /\ cv.last.out = cv.bits \cap cv.last.args
        /\ is_subset_of(cv.last.out, cv.bits)
        /\ derive(cv.last.out, cv.last.args) = cv.last.out

\* ====================================================================
\* The IPC manager of cell0/kernel/src/ipc/mod.rs.  ipc.m holds the fields
\* of struct IpcManager; a channel method is an operator from (channel,
\* arguments) to the new channel and the value returned.
\* ====================================================================

\* ------------------------------------------------------------ bounds
MaxIds == 2          \* channel and shared-memory ids handed out in one run
MaxIpcOps == 6       \* IpcManager calls in one run
SmallQueue == 2      \* the max_queue_size a caller lowers a channel to
MaxIpcPid == 1       \* owners and peers are 0..MaxIpcPid

\* ------------------------------------------------------------ constants
MAX_MESSAGE_SIZE == 4096

MAX_PENDING_MESSAGES == 256

\* a payload is its length and a tag that tells payloads apart
Message_new(source, destination, msg_type, payload) ==
    [header |-> [source |-> source, destination |-> destination,
                 msg_type |-> msg_type, flags |-> 0, timestamp |-> 0],
     payload |-> payload]

Channel_new(id, owner, channel_type) ==
    [id |-> id, channel_type |-> channel_type, state |-> "Connecting",
     owner |-> owner, peer |-> None, message_queue |-> <<>>,
     max_queue_size |-> MAX_PENDING_MESSAGES,
     blocking_send |-> TRUE, blocking_recv |-> TRUE]

ChRet(self, result) == [ch |-> self, result |-> result]

Channel_connect(self, peer) ==
    IF self.state # "Connecting" THEN ChRet(self, Err("InvalidState"))
    ELSE ChRet([self EXCEPT !.peer = Some(peer), !.state = "Connected"], Ok(<<>>))

\* send that lets a blocking channel grow past its limit
Channel_send_unbounded(self, message) ==
    IF self.state # "Connected" THEN ChRet(self, Err("ChannelClosed"))
    ELSE IF message.payload.len > MAX_MESSAGE_SIZE
    THEN ChRet(self, Err("MessageTooLarge"))
    ELSE ChRet([self EXCEPT !.message_queue = Append(@, message)], Ok(<<>>))

\* send that does not look at the state of the channel
Channel_send_any_state(self, message) ==
    IF message.payload.len > MAX_MESSAGE_SIZE
    THEN ChRet(self, Err("MessageTooLarge"))
    ELSE IF Len(self.message_queue) >= self.max_queue_size /\ self.blocking_send
    THEN ChRet(self, Err("WouldBlock"))
    ELSE LET q == IF Len(self.message_queue) >= self.max_queue_size
                       /\ self.message_queue # <<>>
                  THEN Tail(self.message_queue) ELSE self.message_queue
         IN ChRet([self EXCEPT !.message_queue = Append(q, message)], Ok(<<>>))

Channel_send(self, message) ==
    IF self.state # "Connected" THEN ChRet(self, Err("ChannelClosed"))
    ELSE IF message.payload.len > MAX_MESSAGE_SIZE
    THEN ChRet(self, Err("MessageTooLarge"))
    ELSE IF Len(self.message_queue) >= self.max_queue_size /\ self.blocking_send
    THEN ChRet(self, Err("WouldBlock"))
    ELSE LET q == IF Len(self.message_queue) >= self.max_queue_size
                       /\ self.message_queue # <<>>
                  THEN Tail(self.message_queue) ELSE self.message_queue
         IN ChRet([self EXCEPT !.message_queue = Append(q, message)], Ok(<<>>))

\* recv that takes the newest message
Channel_recv_newest(self) ==
    IF self.message_queue # <<>>
    THEN ChRet([self EXCEPT !.message_queue = SubSeq(@, 1, Len(@) - 1)],
               Ok(<<self.message_queue[Len(self.message_queue)]>>))
    ELSE IF self.state = "Closed" THEN ChRet(self, Err("ChannelClosed"))
    ELSE IF self.blocking_recv THEN ChRet(self, Err("WouldBlock"))
    ELSE ChRet(self, Err("NoMessage"))

Channel_recv(self) ==
    IF self.message_queue # <<>>
    THEN ChRet([self EXCEPT !.message_queue = Tail(@)], Ok(<<Head(self.message_queue)>>))
    ELSE IF self.state = "Closed" THEN ChRet(self, Err("ChannelClosed"))
    ELSE IF self.blocking_recv THEN ChRet(self, Err("WouldBlock"))
    ELSE ChRet(self, Err("NoMessage"))

Channel_try_recv(self) ==
    IF self.message_queue # <<>>
    THEN ChRet([self EXCEPT !.message_queue = Tail(@)], Ok(<<Head(self.message_queue)>>))
    ELSE ChRet(self, Err("NoMessage"))

Channel_close(self) == [self EXCEPT !.state = "Closed", !.peer = None]

SharedMemory_new(id, owner, size) ==
    [id |-> id, owner |-> owner, size |-> size, mapped_processes |-> <<>>]

SharedMemory_map(self, process_id) ==
    IF Contains(self.mapped_processes, process_id) THEN self
    ELSE [self EXCEPT !.mapped_processes = Append(@, process_id)]

SharedMemory_unmap(self, process_id) ==
    [self EXCEPT !.mapped_processes = SelectSeq(@, LAMBDA p : p # process_id)]

IpcManager_new == [channels |-> <<>>, next_channel_id |-> 1, shared_memory |-> <<>>]

IRet(self, result) == [m |-> self, result |-> result]

create_channel(self, owner, channel_type) ==
    LET id == self.next_channel_id
    IN IRet([self EXCEPT !.next_channel_id = id + 1,
                         !.channels = Append(@, Channel_new(id, owner, channel_type))],
            Ok(<<id>>))

\* get_channel(id): the position of the channel, or 0
get_channel(self, id) == FirstEntry(self.channels, LAMBDA c : c.id = id)

\* get_channel(id) and then the channel method that gave r
on_channel(self, at, r) == IRet([self EXCEPT !.channels[at] = r.ch], r.result)

close_channel(self, id) ==
    LET at == get_channel(self, id)
    IN IF at = 0 THEN IRet(self, Err("ChannelNotFound"))
       ELSE IRet([self EXCEPT !.channels[at] = Channel_close(@)], Ok(<<>>))

ipc_send(self, channel_id, message) ==
    LET at == get_channel(self, channel_id)
    IN IF at = 0 THEN IRet(self, Err("ChannelNotFound"))
       ELSE on_channel(self, at, Channel_send(self.channels[at], message))

ipc_recv(self, channel_id) ==
    LET at == get_channel(self, channel_id)
    IN IF at = 0 THEN IRet(self, Err("ChannelNotFound"))
       ELSE on_channel(self, at, Channel_recv(self.channels[at]))

create_shared_memory(self, owner, size) ==
    LET id == self.next_channel_id
    IN IRet([self EXCEPT !.next_channel_id = id + 1,
                         !.shared_memory = Append(@, SharedMemory_new(id, owner, size))],
            Ok(<<id>>))

get_shared_memory(self, id) == FirstEntry(self.shared_memory, LAMBDA r : r.id = id)

destroy_shared_memory(self, id) ==
    LET idx == get_shared_memory(self, id)
    IN IF idx = 0 THEN IRet(self, Err("ResourceNotFound"))
       ELSE IRet([self EXCEPT !.shared_memory =
                     SubSeq(@, 1, idx - 1) \o SubSeq(@, idx + 1, Len(@))],
                 Ok(<<>>))

cleanup_process(self, process_id) ==
    [self EXCEPT
        !.channels = SelectSeq(@, LAMBDA c : c.owner # process_id),
        !.shared_memory =
            [i \in 1..Len(@) |-> SharedMemory_unmap(@[i], process_id)]]

\* ------------------------------------------------------------ IPC actions
IpcPids == 0..MaxIpcPid

IdArgs == 1..MaxIds

PayloadLengths == {MAX_MESSAGE_SIZE, MAX_MESSAGE_SIZE + 1}

\* the IPC manager after ipc::init(), beside PROCESS_TABLE after process::init()
IpcInit ==
    /\ RaftIdle
    /\ pt = ProcessTable_init(ProcessTable_new)
    /\ plog = [op |-> "init", args |-> <<>>, result |-> Ok(<<>>), steps |-> 0,
               scheds |-> 0, run |-> <<>>, base |-> ProcessTable_new.ready_queues,
               issued |-> {KERNEL_PID}, released |-> {}]
    /\ sm = Idle
    /\ slog = Idle
    /\ cv = Idle
    /\ MemoryIdle
    /\ rn = Idle
    /\ ipc = [m |-> IpcManager_new,
              last |-> [op |-> "init", args |-> <<>>, result |-> Ok(<<>>)],
              steps |-> 0, sends |-> 0,
              sent |-> [i \in IdArgs |-> <<>>], rcvd |-> [i \in IdArgs |-> <<>>],
              lossy |-> {}]

\* One call that left the manager as r.m and returned r.result.  ipc.sent[c]
\* is the messages whose send on channel c returned Ok, ipc.rcvd[c] the
\* messages recv returned on it, ipc.lossy the channels that have had
\* blocking_send = false.
ICall(op, args, r) ==
    /\ ipc.steps < MaxIpcOps
    /\ ipc' = [m |-> r.m,
               last |-> [op |-> op, args |-> args, result |-> r.result],
               steps |-> ipc.steps + 1,
               sends |-> IF op = "send" THEN ipc.sends + 1 ELSE ipc.sends,
               sent |-> IF op = "send" /\ r.result.ok
                        THEN [ipc.sent EXCEPT ![args[1]] = Append(@, args[2])]
                        ELSE ipc.sent,
               rcvd |-> IF op \in {"recv", "try_recv"} /\ r.result.ok
                        THEN [ipc.rcvd EXCEPT ![args[1]] = @ \o r.result.val]
                        ELSE ipc.rcvd,
               lossy |-> ipc.lossy \cup
                         {r.m.channels[i].id :
                             i \in {j \in 1..Len(r.m.channels) :
                                       ~r.m.channels[j].blocking_send}}]
    /\ UNCHANGED <<RaftVars, pt, plog, sm, slog, cv, heap, frames, rn>>

CreateChannel(owner) ==
    /\ ipc.m.next_channel_id <= MaxIds
    /\ ICall("create_channel", <<owner>>, create_channel(ipc.m, owner, "Bidirectional"))

\* get_channel(id).connect(peer)
Connect(id, peer) ==
    LET at == get_channel(ipc.m, id)
    IN /\ at # 0
       /\ ICall("connect", <<id, peer>>,
                on_channel(ipc.m, at, Channel_connect(ipc.m.channels[at], peer)))

\* the owner sets the pub fields max_queue_size and blocking_send of a
\* channel it has created, before it connects the channel
Configure(id, blocking) ==
    LET at == get_channel(ipc.m, id)
    IN /\ at # 0
       /\ ipc.m.channels[at].state = "Connecting"
       /\ ipc.m.channels[at].max_queue_size # SmallQueue
       /\ ICall("configure", <<id, blocking>>,
                IRet([ipc.m EXCEPT !.channels[at].max_queue_size = SmallQueue,
                                   !.channels[at].blocking_send = blocking],
                     Ok(<<>>)))

CloseChannel(id) == ICall("close_channel", <<id>>, close_channel(ipc.m, id))

IpcSend(id, len) ==
    LET message == Message_new(0, 1, 0, [tag |-> ipc.sends + 1, len |-> len])
    IN ICall("send", <<id, message>>, ipc_send(ipc.m, id, message))

IpcRecv(id) == ICall("recv", <<id>>, ipc_recv(ipc.m, id))

\* get_channel(id).try_recv()
TryRecv(id) ==
    LET at == get_channel(ipc.m, id)
    IN /\ at # 0
       /\ ICall("try_recv", <<id>>,
                on_channel(ipc.m, at, Channel_try_recv(ipc.m.channels[at])))

CreateSharedMemory(owner) ==
    /\ ipc.m.next_channel_id <= MaxIds
    /\ ICall("create_shared_memory", <<owner>>,
             create_shared_memory(ipc.m, owner, MAX_MESSAGE_SIZE))

\* get_shared_memory(id).map(process_id)
MapShared(id, process_id) ==
    LET at == get_shared_memory(ipc.m, id)
    IN /\ at # 0
       /\ ICall("map", <<id, process_id>>,
                IRet([ipc.m EXCEPT !.shared_memory[at] = SharedMemory_map(@, process_id)],
                     Ok(<<>>)))

DestroySharedMemory(id) ==
    ICall("destroy_shared_memory", <<id>>, destroy_shared_memory(ipc.m, id))

CleanupProcess(process_id) ==
    ICall("cleanup_process", <<process_id>>,
          IRet(cleanup_process(ipc.m, process_id), <<>>))

\* the kernel starts the user process that owns channels: ProcessTable::spawn
ProcessStart ==
    /\ pt.next_pid <= MaxIpcPid
    /\ Spawn(KERNEL_PID, Normal)

\* a user process of the table exits: ProcessTable::terminate
ProcessExit(pid) ==
    /\ pid # KERNEL_PID
    /\ pid \in Pids(pt)
    /\ pt.processes[pid].state # "Zombie"
    /\ Terminate(pid, 0)

IpcNext ==
    \/ \E o \in IpcPids : CreateChannel(o)
    \/ \E c \in IdArgs, p \in IpcPids : Connect(c, p)
    \/ \E c \in IdArgs, b \in BOOLEAN : Configure(c, b)
    \/ \E c \in IdArgs : CloseChannel(c)
    \/ \E c \in IdArgs, n \in PayloadLengths : IpcSend(c, n)
    \/ \E c \in IdArgs : IpcRecv(c)
    \/ \E c \in IdArgs : TryRecv(c)
    \/ \E o \in IpcPids : CreateSharedMemory(o)
    \/ \E r \in IdArgs, p \in IpcPids : MapShared(r, p)
    \/ \E r \in IdArgs : DestroySharedMemory(r)
    \/ \E p \in IpcPids : CleanupProcess(p)
    \/ ProcessStart
    \/ \E p \in IpcPids : ProcessExit(p)

IpcSpec == IpcInit /\ [][IpcNext]_vars

\* ------------------------------------------------------------ IPC claims
IsPrefix(s, t) == Len(s) <= Len(t) /\ SubSeq(t, 1, Len(s)) = s

HasChannel(m, id) == get_channel(m, id) # 0

ChannelOf(m, id) == m.channels[get_channel(m, id)]

\* the step is the call op of the IPC manager
IpcStep(op) == ipc'.steps = ipc.steps + 1 /\ ipc'.last.op = op

\* C24: on a channel whose blocking_send has always been true, the messages
\* returned by recv are a prefix, in send order, of the messages whose send
\* returned Ok, and the accepted messages not yet received are exactly the
\* queue: nothing is lost, duplicated or reordered.
C24_FifoPrefix ==
    \A c \in IdArgs :
        c \notin ipc.lossy =>
            /\ IsPrefix(ipc.rcvd[c], ipc.sent[c])
            /\ HasChannel(ipc.m, c) =>
                   ipc.sent[c] = ipc.rcvd[c] \o ChannelOf(ipc.m, c).message_queue

\* two messages sent on a blocking channel have both been received, in order
C24_Witness ==
    \E c \in IdArgs :
        /\ c \notin ipc.lossy
        /\ ipc.last.op = "recv"
        /\ ipc.last.args[1] = c
        /\ Len(ipc.sent[c]) = 2
        /\ ipc.rcvd[c] = ipc.sent[c]
        /\ ipc.rcvd[c][1].payload.tag < ipc.rcvd[c][2].payload.tag

AtCapacity(ch) ==
    ch.state = "Connected" /\ Len(ch.message_queue) >= ch.max_queue_size

C26_Lifecycle ==
    [][/\ IpcStep("create_channel") =>
              ipc'.m.channels[Len(ipc'.m.channels)].state = "Connecting"
       /\ IpcStep("connect") =>
              LET before == ChannelOf(ipc.m, ipc'.last.args[1])
                  after == ChannelOf(ipc'.m, ipc'.last.args[1])
              IN IF before.state = "Connecting"
                 THEN /\ ipc'.last.result = Ok(<<>>)
                      /\ after.state = "Connected"
                      /\ after.peer = Some(ipc'.last.args[2])
                 ELSE /\ ipc'.last.result = Err("InvalidState")
                      /\ after = before
       /\ IpcStep("close_channel") /\ HasChannel(ipc.m, ipc'.last.args[1]) =>
              /\ ipc'.last.result = Ok(<<>>)
              /\ ChannelOf(ipc'.m, ipc'.last.args[1]).state = "Closed"
       /\ IpcStep("send") /\ HasChannel(ipc.m, ipc'.last.args[1]) =>
              LET before == ChannelOf(ipc.m, ipc'.last.args[1])
                  after == ChannelOf(ipc'.m, ipc'.last.args[1])
              IN /\ ipc'.last.result.ok => before.state = "Connected"
                 /\ before.state # "Connected" =>
                        ~ipc'.last.result.ok /\ after = before
                 /\ before.state = "Connected"
                        /\ ipc'.last.args[2].payload.len > MAX_MESSAGE_SIZE =>
                        ipc'.last.result = Err("MessageTooLarge") /\ after = before
       /\ \A c \in IdArgs :
              HasChannel(ipc.m, c) /\ ChannelOf(ipc.m, c).state = "Closed" =>
                  /\ HasChannel(ipc'.m, c) => ChannelOf(ipc'.m, c).state = "Closed"
                  /\ (IpcStep("connect") \/ IpcStep("send")) /\ ipc'.last.args[1] = c =>
                         ~ipc'.last.result.ok]_vars

\* a channel that carried a message was closed, and a send on it was refused
C26_Witness ==
    \E c \in IdArgs :
        /\ HasChannel(ipc.m, c)
        /\ ChannelOf(ipc.m, c).state = "Closed"
        /\ ipc.sent[c] # <<>>
        /\ ipc.last.op = "send"
        /\ ipc.last.args[1] = c
        /\ ipc.last.result = Err("ChannelClosed")

\* C27: a process that has terminated owns no channel of the IPC manager and
\* is in the mapped set of no shared-memory region.
C27_ExitCleanup ==
    \A p \in Pids(pt) :
        pt.processes[p].state = "Zombie" =>
            /\ \A i \in 1..Len(ipc.m.channels) : ipc.m.channels[i].owner # p
            /\ \A i \in 1..Len(ipc.m.shared_memory) :
                   ~Contains(ipc.m.shared_memory[i].mapped_processes, p)

\* ------------------------------------------------------------ page frames
\* (memory/mod.rs: PageFrameAllocator)
MaxPageOps == 4

\* the number of page frames; 16384 in the source
NUM_PAGES == 8

Free == 0

Allocated == 1

Reserved == 2

Corrupted == 3

\* bitmap is the array of NUM_PAGES / 4 bytes, two bits a page
PageFrameAllocator_new ==
    [bitmap |-> [i \in 1..(NUM_PAGES \div 4) |-> 0],
     next_page |-> 0,
     free_pages |-> NUM_PAGES]

get_page_state(self, page) ==
    LET byte_idx == page \div 4
        shift == (page % 4) * 2
    IN (self.bitmap[byte_idx + 1] \div (2 ^ shift)) % 4

set_page_state(self, page, state) ==
    LET byte_idx == page \div 4
        shift == (page % 4) * 2
        old == (self.bitmap[byte_idx + 1] \div (2 ^ shift)) % 4
    IN [self EXCEPT !.bitmap[byte_idx + 1] = (@ - old * (2 ^ shift)) + state * (2 ^ shift)]

PRet(self, result) == [a |-> self, result |-> result]

alloc_page(self) ==
    LET start == self.next_page
        hits == {i \in 0..(NUM_PAGES - 1) :
                    get_page_state(self, (start + i) % NUM_PAGES) = Free}
    IN IF hits = {} THEN PRet(self, None)
       ELSE LET i == CHOOSE h \in hits : \A g \in hits : h <= g
                page == (start + i) % NUM_PAGES
                taken == set_page_state(self, page, Allocated)
            IN PRet([taken EXCEPT !.next_page = (page + 1) % NUM_PAGES,
                                  !.free_pages = @ - 1],
                    Some(page))

RECURSIVE set_pages(_, _, _, _)
set_pages(self, start, count, state) ==
    IF count = 0 THEN self
    ELSE set_pages(set_page_state(self, start, state), start + 1, count - 1, state)

alloc_pages(self, count) ==
    IF count = 0 \/ count > NUM_PAGES THEN PRet(self, None)
    ELSE LET fits == {start \in 0..(NUM_PAGES - count) :
                         \A i \in 0..(count - 1) :
                             get_page_state(self, start + i) = Free}
         IN IF fits = {} THEN PRet(self, None)
            ELSE LET start == CHOOSE f \in fits : \A g \in fits : f <= g
                 IN PRet([set_pages(self, start, count, Allocated) EXCEPT
                             !.free_pages = @ - count],
                         Some(start))

free_page(self, page) ==
    IF page >= NUM_PAGES THEN PRet(self, Err("InvalidPointer"))
    ELSE IF get_page_state(self, page) = Free THEN PRet(self, Err("DoubleFree"))
    ELSE PRet([set_page_state(self, page, Free) EXCEPT !.free_pages = @ + 1], Ok(<<>>))

mark_corrupted(self, page) ==
    IF page < NUM_PAGES THEN set_page_state(self, page, Corrupted) ELSE self

free_pages(self) == self.free_pages

gc(self) == [self EXCEPT !.next_page = 0]

PageArgs == 0..NUM_PAGES

CountArgs == 0..3

\* PAGE_ALLOCATOR as the static initialiser builds it
PageInit ==
    /\ RaftIdle
    /\ pt = Idle
    /\ plog = Idle
    /\ sm = Idle
    /\ slog = Idle
    /\ cv = Idle
    /\ ipc = Idle
    /\ heap = Idle
    /\ rn = Idle
    /\ frames = [a |-> PageFrameAllocator_new,
                 last |-> [op |-> "new", args |-> <<>>, result |-> <<>>,
                           before |-> PageFrameAllocator_new],
                 steps |-> 0]

\* One call that left the allocator as r.a and returned r.result;
\* frames.last.before is the allocator as the call found it.
PCall(op, args, r) ==
    /\ frames.steps < MaxPageOps
    /\ frames' = [a |-> r.a,
                  last |-> [op |-> op, args |-> args, result |-> r.result,
                            before |-> frames.a],
                  steps |-> frames.steps + 1]
    /\ UNCHANGED <<RaftVars, pt, plog, sm, slog, cv, ipc, heap, rn>>

AllocPage == PCall("alloc_page", <<>>, alloc_page(frames.a))

AllocPages(count) == PCall("alloc_pages", <<count>>, alloc_pages(frames.a, count))

FreePage(page) == PCall("free_page", <<page>>, free_page(frames.a, page))

MarkCorrupted(page) ==
    PCall("mark_corrupted", <<page>>, PRet(mark_corrupted(frames.a, page), <<>>))

FreePages == PCall("free_pages", <<>>, PRet(frames.a, <<free_pages(frames.a)>>))

Gc == PCall("gc", <<>>, PRet(gc(frames.a), <<>>))

PageNext ==
    \/ AllocPage
    \/ \E n \in CountArgs : AllocPages(n)
    \/ \E p \in PageArgs : FreePage(p)
    \/ \E p \in PageArgs : MarkCorrupted(p)
    \/ FreePages
    \/ Gc

PageSpec == PageInit /\ [][PageNext]_vars

FreeFrames(a) == {p \in 0..(NUM_PAGES - 1) : get_page_state(a, p) = Free}

\* C30: the counter free_pages() returns equals the number of Free frames;
\* alloc_page and alloc_pages hand out only frames that were Free; free_page
\* on a Free frame returns DoubleFree and changes nothing.
C30_FreeCounter ==
    /\ free_pages(frames.a) = Cardinality(FreeFrames(frames.a))
    /\ frames.last.op = "alloc_page" /\ frames.last.result # None =>
           frames.last.result[1] \in FreeFrames(frames.last.before)
    /\ frames.last.op = "alloc_pages" /\ frames.last.result # None =>
           \A i \in 0..(frames.last.args[1] - 1) :
               frames.last.result[1] + i \in FreeFrames(frames.last.before)
    /\ frames.last.op = "free_page"
           /\ frames.last.args[1] \in FreeFrames(frames.last.before) =>
           /\ frames.last.result = Err("DoubleFree")
           /\ frames.a = frames.last.before

\* ------------------------------------------------------------ healing heap
\* (memory/mod.rs: HealingHeapAllocator)
MaxHeapOps == 5

\* the region handed to memory::init
HeapStart == 4096

HeapSize == 512

PAGE_SIZE == 4096

CANARY_SIZE == 8

\* core::mem::size_of::<BlockHeader>() of the repr(C) struct on a 64-bit
\* target: usize, bool and u32, two Option<usize>
HEADER_SIZE == 48

\* the smallest payload a split leaves: the literal 16 of alloc
MinPayload == 16

\* Layout::align of the requests
Align == 8

NullPtr == 0

\* The memory of the region is what has been written into it: hdr maps the
\* address of every BlockHeader written and not overwritten since to its
\* fields (magic is whether the field equals BLOCK_MAGIC), canary is the
\* addresses of the CANARY_SIZE-byte runs that hold CANARY_VALUE.  wild is
\* set when a call has read a header from bytes that hold none.
HealingHeapAllocator_new ==
    [heap_base |-> NullPtr, heap_size |-> 0, free_list |-> 0,
     stats |-> [total_pages |-> NUM_PAGES, free_pages |-> NUM_PAGES,
                allocated_pages |-> 0, corrupted_pages |-> 0,
                total_allocations |-> 0, total_deallocations |-> 0,
                failed_allocations |-> 0, corruption_events |-> 0,
                recovered_pages |-> 0],
     healing_enabled |-> TRUE,
     hdr |-> <<>>, canary |-> {}, wild |-> FALSE]

Overlaps(a, alen, b, blen) == a < b + blen /\ b < a + alen

\* the stores of all fields of the header at addr
write_header(self, addr, header) ==
    LET kept == {y \in DOMAIN self.hdr :
                    y # addr /\ ~Overlaps(y, HEADER_SIZE, addr, HEADER_SIZE)}
    IN [self EXCEPT
           !.hdr = Insert([y \in kept |-> self.hdr[y]], addr, header),
           !.canary = {c \in @ : ~Overlaps(c, CANARY_SIZE, addr, HEADER_SIZE)}]

\* for i in 0..CANARY_SIZE { canary.add(i).write(CANARY_VALUE) }
write_canary(self, addr) ==
    LET kept == {y \in DOMAIN self.hdr :
                    ~Overlaps(y, HEADER_SIZE, addr, CANARY_SIZE)}
    IN [self EXCEPT !.hdr = [y \in kept |-> self.hdr[y]],
                    !.canary = @ \cup {addr}]

repair_canary(self, canary) == write_canary(self, canary)

check_canary(self, canary) == canary \in self.canary

Wild(self) == [self EXCEPT !.wild = TRUE]

HeapInitRegion(self, heap_start, heap_size) ==
    LET size == heap_size - HEADER_SIZE - CANARY_SIZE
        first == write_header([self EXCEPT !.heap_base = heap_start,
                                           !.heap_size = heap_size],
                              heap_start,
                              [size |-> size, is_allocated |-> FALSE, magic |-> TRUE,
                               prev |-> None, next |-> None])
        filled == write_canary(first, heap_start + HEADER_SIZE + size)
    IN [filled EXCEPT !.free_list = heap_start,
                      !.stats.free_pages = heap_size \div PAGE_SIZE]

heal_block(self, blk) ==
    [self EXCEPT !.hdr[blk].magic = TRUE,
                 !.hdr[blk].is_allocated = TRUE,
                 !.stats.recovered_pages = @ + 1]

HRet(self, result) == [a |-> self, result |-> result]

PagesOf(bytes) == (bytes + PAGE_SIZE - 1) \div PAGE_SIZE

saturating_sub(a, b) == IF a > b THEN a - b ELSE 0

\* alloc from the block at current on: split it if the rest can hold a block
alloc_take(self, current, size) ==
    LET total_size == size + CANARY_SIZE
        header_size == HEADER_SIZE
        blk == self.hdr[current]
        remaining == blk.size - total_size
        new_block_addr == current + header_size + total_size
        new_size == remaining - header_size - CANARY_SIZE
        split ==
            IF remaining >= header_size + CANARY_SIZE + MinPayload
            THEN LET s1 == write_header(self, new_block_addr,
                               [size |-> new_size, is_allocated |-> FALSE,
                                magic |-> TRUE, prev |-> Some(current),
                                next |-> blk.next])
                     s2 == write_canary(s1, new_block_addr + header_size + new_size)
                 IN [s2 EXCEPT !.hdr[current].next = Some(new_block_addr),
                               !.hdr[current].size = total_size - CANARY_SIZE,
                               !.free_list = IF @ = current THEN new_block_addr ELSE @]
            ELSE self
        marked == [split EXCEPT !.hdr[current].is_allocated = TRUE]
        guarded == write_canary(marked, current + header_size + marked.hdr[current].size)
    IN HRet([guarded EXCEPT
                !.stats.total_allocations = @ + 1,
                !.stats.allocated_pages = @ + PagesOf(total_size),
                !.stats.free_pages = saturating_sub(@, PagesOf(total_size))],
            current + header_size)

\* the while loop of alloc over the free list; fuel bounds the blocks visited
RECURSIVE alloc_search(_, _, _, _)
alloc_search(self, current, size, fuel) ==
    IF current = 0
    THEN HRet([self EXCEPT !.stats.failed_allocations = @ + 1], NullPtr)
    ELSE IF fuel = 0 \/ current \notin DOMAIN self.hdr THEN HRet(Wild(self), NullPtr)
    ELSE IF ~self.hdr[current].magic /\ ~self.healing_enabled
    THEN HRet([self EXCEPT !.stats.corruption_events = @ + 1], NullPtr)
    ELSE LET healed == IF ~self.hdr[current].magic THEN heal_block(self, current)
                       ELSE self
             blk == healed.hdr[current]
         IN IF ~blk.is_allocated /\ blk.size >= size + CANARY_SIZE
            THEN alloc_take(healed, current, size)
            ELSE alloc_search(healed, IF blk.next = None THEN 0 ELSE blk.next[1],
                              size, fuel - 1)

alloc(self, size) ==
    IF size = 0 THEN HRet(self, Align)
    ELSE IF size > self.heap_size
    THEN HRet([self EXCEPT !.stats.failed_allocations = @ + 1], NullPtr)
    ELSE alloc_search(self, self.free_list, size, Cardinality(DOMAIN self.hdr) + 1)

\* Coalesce with next block if free
coalesce_next(self, blk) ==
    LET b == self.hdr[blk]
    IN IF b.next = None THEN self
       ELSE IF b.next[1] \notin DOMAIN self.hdr THEN Wild(self)
       ELSE LET next == self.hdr[b.next[1]]
            IN IF next.is_allocated THEN self
               ELSE LET merged == [self EXCEPT
                            !.hdr[blk].size = @ + HEADER_SIZE + CANARY_SIZE + next.size,
                            !.hdr[blk].next = next.next]
                    IN IF next.next = None THEN merged
                       ELSE IF next.next[1] \notin DOMAIN self.hdr THEN Wild(merged)
                       ELSE [merged EXCEPT !.hdr[next.next[1]].prev = Some(blk)]

\* Coalesce with previous block if free
coalesce_prev(self, blk) ==
    LET b == self.hdr[blk]
    IN IF b.prev = None THEN self
       ELSE IF b.prev[1] \notin DOMAIN self.hdr THEN Wild(self)
       ELSE LET prev == self.hdr[b.prev[1]]
            IN IF prev.is_allocated THEN self
               ELSE LET merged == [self EXCEPT
                            !.hdr[b.prev[1]].size = @ + HEADER_SIZE + CANARY_SIZE + b.size,
                            !.hdr[b.prev[1]].next = b.next]
                    IN IF b.next = None THEN merged
                       ELSE IF b.next[1] \notin DOMAIN self.hdr THEN Wild(merged)
                       ELSE [merged EXCEPT !.hdr[b.next[1]].prev = b.prev]

\* a dealloc that merges the freed block with the block after it only
dealloc_no_prev(self, ptr) ==
    IF ptr = NullPtr THEN self
    ELSE LET header_size == HEADER_SIZE
             blk == ptr - header_size
         IN IF blk \notin DOMAIN self.hdr THEN Wild(self)
            ELSE IF ~self.hdr[blk].magic
            THEN LET counted == [self EXCEPT !.stats.corruption_events = @ + 1]
                 IN IF self.healing_enabled THEN heal_block(counted, blk) ELSE counted
            ELSE IF ~self.hdr[blk].is_allocated
            THEN [self EXCEPT !.stats.corruption_events = @ + 1]
            ELSE LET canary_addr == blk + header_size + self.hdr[blk].size
                     checked ==
                         IF ~check_canary(self, canary_addr)
                         THEN LET counted == [self EXCEPT !.stats.corruption_events = @ + 1]
                              IN IF self.healing_enabled
                                 THEN repair_canary(counted, canary_addr)
                                 ELSE counted
                         ELSE self
                     size == self.hdr[blk].size + header_size + CANARY_SIZE
                     freed == [checked EXCEPT
                                  !.hdr[blk].is_allocated = FALSE,
                                  !.stats.total_deallocations = @ + 1,
                                  !.stats.allocated_pages = saturating_sub(@, PagesOf(size)),
                                  !.stats.free_pages = @ + PagesOf(size)]
                     with_next == coalesce_next(freed, blk)
                 IN with_next

dealloc(self, ptr) ==
    IF ptr = NullPtr THEN self
    ELSE LET header_size == HEADER_SIZE
             blk == ptr - header_size
         IN IF blk \notin DOMAIN self.hdr THEN Wild(self)
            ELSE IF ~self.hdr[blk].magic
            THEN LET counted == [self EXCEPT !.stats.corruption_events = @ + 1]
                 IN IF self.healing_enabled THEN heal_block(counted, blk) ELSE counted
            ELSE IF ~self.hdr[blk].is_allocated
            THEN [self EXCEPT !.stats.corruption_events = @ + 1]
            ELSE LET canary_addr == blk + header_size + self.hdr[blk].size
                     checked ==
                         IF ~check_canary(self, canary_addr)
                         THEN LET counted == [self EXCEPT !.stats.corruption_events = @ + 1]
                              IN IF self.healing_enabled
                                 THEN repair_canary(counted, canary_addr)
                                 ELSE counted
                         ELSE self
                     size == self.hdr[blk].size + header_size + CANARY_SIZE
                     freed == [checked EXCEPT
                                  !.hdr[blk].is_allocated = FALSE,
                                  !.stats.total_deallocations = @ + 1,
                                  !.stats.allocated_pages = saturating_sub(@, PagesOf(size)),
                                  !.stats.free_pages = @ + PagesOf(size)]
                     with_next == coalesce_next(freed, blk)
                 IN IF with_next.wild THEN with_next ELSE coalesce_prev(with_next, blk)

set_healing_enabled(self, enabled) == [self EXCEPT !.healing_enabled = enabled]

\* The while loop of verify_heap, as the set of results it can give: where
\* the walk lands on bytes that hold no header (they may lie past the end of
\* the region) what it reads is not defined.
RECURSIVE verify_walk(_, _, _)
verify_walk(self, current, errors) ==
    IF current >= self.heap_base + self.heap_size
    THEN {IF errors > 0 THEN Err("CorruptionDetected") ELSE Ok(<<0>>)}
    ELSE IF current \notin DOMAIN self.hdr
    THEN {Err("CorruptionDetected")} \cup (IF errors = 0 THEN {Ok(<<0>>)} ELSE {})
    ELSE LET blk == self.hdr[current]
             bad == \/ ~blk.magic
                    \/ /\ blk.is_allocated
                       /\ ~check_canary(self, current + HEADER_SIZE + blk.size)
         IN verify_walk(self, current + blk.size + HEADER_SIZE + CANARY_SIZE,
                        IF bad THEN errors + 1 ELSE errors)

verify_heap(self) ==
    IF self.heap_base = NullPtr THEN {Err("InvalidPointer")}
    ELSE verify_walk(self, self.heap_base, 0)

\* sizes: none, two that split the first block, one that takes the whole of
\* it, and one larger than the heap
AllocSizes == {0, 16, 64, HeapSize - HEADER_SIZE - 2 * CANARY_SIZE, HeapSize + 1}

\* HEAP_ALLOCATOR after memory::init(heap_start, heap_size)
HeapInit ==
    /\ RaftIdle
    /\ pt = Idle
    /\ plog = Idle
    /\ sm = Idle
    /\ slog = Idle
    /\ cv = Idle
    /\ ipc = Idle
    /\ frames = Idle
    /\ rn = Idle
    /\ heap = [a |-> HeapInitRegion(HealingHeapAllocator_new, HeapStart, HeapSize),
               last |-> [op |-> "init", args |-> <<>>, result |-> <<>>,
                         before |-> HealingHeapAllocator_new],
               steps |-> 0, live |-> {}, issued |-> {},
               injected |-> FALSE, misused |-> FALSE]

\* One call that left the allocator as r.a and returned r.result.  heap.live
\* is the pointers alloc returned that have not been passed to dealloc,
\* heap.issued all it returned, heap.injected whether a canary or a magic
\* marker has been overwritten, heap.misused whether dealloc was given a
\* pointer that was not live.
HCall(op, args, r, injects) ==
    /\ heap.steps < MaxHeapOps
    /\ ~heap.a.wild
    /\ heap' = [a |-> r.a,
                last |-> [op |-> op, args |-> args, result |-> r.result,
                          before |-> heap.a],
                steps |-> heap.steps + 1,
                live |-> IF op = "alloc" /\ args[1] # 0 /\ r.result # NullPtr
                         THEN heap.live \cup {r.result}
                         ELSE IF op = "dealloc" THEN heap.live \ {args[1]}
                         ELSE heap.live,
                issued |-> IF op = "alloc" /\ args[1] # 0 /\ r.result # NullPtr
                           THEN heap.issued \cup {r.result} ELSE heap.issued,
                injected |-> heap.injected \/ injects,
                misused |-> \/ heap.misused
                            \/ op = "dealloc" /\ args[1] # NullPtr
                                   /\ args[1] \notin heap.live]
    /\ UNCHANGED <<RaftVars, pt, plog, sm, slog, cv, ipc, frames, rn>>

Alloc(size) == HCall("alloc", <<size>>, alloc(heap.a, size), FALSE)

Dealloc(ptr) == HCall("dealloc", <<ptr>>, HRet(dealloc(heap.a, ptr), <<>>), FALSE)

SetHealingEnabled(enabled) ==
    /\ heap.a.healing_enabled # enabled
    /\ HCall("set_healing_enabled", <<enabled>>,
             HRet(set_healing_enabled(heap.a, enabled), <<>>), FALSE)

VerifyHeap ==
    \E result \in verify_heap(heap.a) :
        HCall("verify_heap", <<>>, HRet(heap.a, result), FALSE)

\* the holder of ptr writes past the end of its payload, over the canary
OverwriteCanary(ptr) ==
    LET blk == ptr - HEADER_SIZE
        canary_addr == blk + HEADER_SIZE + heap.a.hdr[blk].size
    IN /\ blk \in DOMAIN heap.a.hdr
       /\ check_canary(heap.a, canary_addr)
       /\ HCall("overwrite_canary", <<ptr>>,
                HRet([heap.a EXCEPT !.canary = @ \ {canary_addr}], <<>>), TRUE)

\* a stray write changes the magic field of the header before ptr
OverwriteMagic(ptr) ==
    LET blk == ptr - HEADER_SIZE
    IN /\ blk \in DOMAIN heap.a.hdr
       /\ heap.a.hdr[blk].magic
       /\ HCall("overwrite_magic", <<ptr>>,
                HRet([heap.a EXCEPT !.hdr[blk].magic = FALSE], <<>>), TRUE)

HeapNext ==
    \/ \E size \in AllocSizes : Alloc(size)
    \/ \E ptr \in heap.issued \cup {NullPtr} : Dealloc(ptr)
    \/ \E enabled \in BOOLEAN : SetHealingEnabled(enabled)
    \/ VerifyHeap
    \/ \E ptr \in heap.live : OverwriteCanary(ptr)
    \/ \E ptr \in heap.live : OverwriteMagic(ptr)

HeapSpec == HeapInit /\ [][HeapNext]_vars

\* the addresses reached from the first block by following next
RECURSIVE NextWalk(_, _, _)
NextWalk(a, current, fuel) ==
    IF fuel = 0 \/ current \notin DOMAIN a.hdr THEN <<>>
    ELSE <<current>> \o (IF a.hdr[current].next = None THEN <<>>
                         ELSE NextWalk(a, a.hdr[current].next[1], fuel - 1))

BlockEnd(a, at) == at + HEADER_SIZE + a.hdr[at].size + CANARY_SIZE

\* the blocks on the next chain lie in increasing address order, each
\* starting where the one before ends, from the start to the end of the region
Tiles(a) ==
    LET walk == NextWalk(a, a.heap_base, Cardinality(DOMAIN a.hdr))
    IN /\ walk # <<>>
       /\ \A i \in 1..(Len(walk) - 1) : walk[i + 1] = BlockEnd(a, walk[i])
       /\ BlockEnd(a, walk[Len(walk)]) = a.heap_base + a.heap_size

\* C28: as long as no corruption has been injected and dealloc has only been
\* given live pointers, after every call verify_heap() can only return Ok,
\* the blocks on the next chain from the first block tile the heap region in
\* strictly increasing address order, and every live pointer is the payload
\* of an allocated block of that chain.
C28_HeapIntegrity ==
    ~heap.injected /\ ~heap.misused =>
        /\ ~heap.a.wild
        /\ verify_heap(heap.a) = {Ok(<<0>>)}
        /\ Tiles(heap.a)
        /\ \A ptr \in heap.live :
               /\ Contains(NextWalk(heap.a, heap.a.heap_base,
                                    Cardinality(DOMAIN heap.a.hdr)),
                           ptr - HEADER_SIZE)
               /\ heap.a.hdr[ptr - HEADER_SIZE].is_allocated

\* the blocks verify_heap visits before the freed one is looked at are sound:
\* every header on the address walk has its magic and every allocated block
\* but the one at except has its canary
RECURSIVE SoundBut(_, _, _)
SoundBut(a, current, except) ==
    IF current >= a.heap_base + a.heap_size \/ current \notin DOMAIN a.hdr THEN TRUE
    ELSE /\ a.hdr[current].magic
         /\ a.hdr[current].is_allocated /\ current # except =>
                check_canary(a, current + HEADER_SIZE + a.hdr[current].size)
         /\ SoundBut(a, BlockEnd(a, current), except)

\* dealloc was given the live pointer of an allocated block whose canary, and
\* nothing else, had been overwritten, with healing enabled
FreedOverflown ==
    /\ heap.last.op = "dealloc"
    /\ ~heap.misused
    /\ heap.last.args[1] # NullPtr
    /\ heap.last.before.healing_enabled
    /\ LET was == heap.last.before
           at == heap.last.args[1] - HEADER_SIZE
       IN /\ at \in DOMAIN was.hdr
          /\ was.hdr[at].magic
          /\ was.hdr[at].is_allocated
          /\ ~check_canary(was, at + HEADER_SIZE + was.hdr[at].size)
          /\ SoundBut(was, was.heap_base, at)

\* C29: with healing enabled, dealloc of an allocated block whose trailing
\* canary was overwritten adds exactly 1 to corruption_events, restores the
\* canary, completes the free, and verify_heap() returns Ok afterwards.
C29_CanaryHealing ==
    FreedOverflown =>
        LET was == heap.last.before
            at == heap.last.args[1] - HEADER_SIZE
        IN /\ heap.a.stats.corruption_events = was.stats.corruption_events + 1
           /\ check_canary(heap.a, at + HEADER_SIZE + was.hdr[at].size)
           /\ ~heap.a.hdr[at].is_allocated
           /\ heap.a.stats.total_deallocations = was.stats.total_deallocations + 1
           /\ verify_heap(heap.a) = {Ok(<<0>>)}

\* ====================================================================
\* Further properties of the Raft engine of consensus/mod.rs
\* ====================================================================

\* C31: a node that is Leader before and after a step, in the same term,
\* changes commit_index only to an index N > commit_index whose entry has the
\* leader's current term and that the leader plus the peers with
\* match_index >= N, a quorum, hold; entries of earlier terms are passed
\* over and become committed only below such an N.
C31_CommitAdvance ==
    [][\A n \in Nodes :
          (/\ node[n].state = "Leader"
           /\ node'[n].state = "Leader"
           /\ node'[n].current_term = node[n].current_term
           /\ node'[n].commit_index # node[n].commit_index)
          => LET N == node'[n].commit_index
                 match == node'[n].leader_state[1].match_index
             IN /\ N > node[n].commit_index
                /\ N <= Len(node'[n].log)
                /\ node'[n].log[N].term = node'[n].current_term
                /\ Cardinality({i \in DOMAIN match : match[i] >= N}) + 1
                       >= (Len(peers) \div 2) + 1]_vars

\* a Leader has committed an entry of its own term that a peer acknowledged
C31_Witness ==
    \E n \in Nodes :
        /\ node[n].state = "Leader"
        /\ node[n].commit_index >= 1
        /\ node[n].log[node[n].commit_index].term = node[n].current_term
        /\ \E i \in DOMAIN node[n].leader_state[1].match_index :
               node[n].leader_state[1].match_index[i] >= node[n].commit_index

\* the term a message carries
MessageTerm(m) ==
    IF m.type \in {"RequestVote", "AppendEntries"} THEN m.args.term ELSE m.reply.term

Delivered(n, m) ==
    \/ HandleRequestVote(n, m)
    \/ HandleRequestVoteReply(n, m)
    \/ HandleAppendEntries(n, m)
    \/ HandleAppendEntriesReply(n, m)

\* C32: no step lowers the current_term of a node, and a node that handles a
\* request or a reply carrying a term above its current_term is left with
\* that term and role Follower.
C32_TermMonotonic ==
    [][/\ \A n \in Nodes : node'[n].current_term >= node[n].current_term
       /\ \A n \in Nodes, m \in msgs :
              Delivered(n, m) /\ MessageTerm(m) > node[n].current_term
              => /\ node'[n].current_term = MessageTerm(m)
                 /\ node'[n].state = "Follower"]_vars

\* a node that won an election is a Follower in a later term
C32_Witness ==
    \E n \in Nodes :
        /\ became[n] # <<>>
        /\ node[n].state = "Follower"
        /\ node[n].current_term > became[n][Len(became[n])]

\* the cluster of two nodes
PairInit ==
    /\ peers = <<1, 2>>
    /\ node = [i \in 1..2 |-> Raft_new(i)]
    /\ msgs = {}
    /\ became = [i \in 1..2 |-> <<>>]
    /\ grants = {}
    /\ applied = [i \in 1..2 |-> <<>>]
    /\ elections = 0
    /\ proposals = 0
    /\ pt = Idle
    /\ plog = Idle
    /\ sm = Idle
    /\ slog = Idle
    /\ cv = Idle
    /\ ipc = Idle
    /\ MemoryIdle
    /\ rn = Idle

PairSpec == PairInit /\ [][Next]_vars

\* C36: a Leader that handles a failed AppendEntries reply of its current
\* term sets next_index of the peer to a value that is at least 1 and
\* below the next_index of the rejected request (its prev_log_index + 1),
\* and queues exactly one SendAppendEntries for the peer, with
\* prev_log_index = next_index - 1.
C36_BackoffProgress ==
    [][\A n \in Nodes, m \in msgs :
          (/\ HandleAppendEntriesReply(n, m)
           /\ node[n].state = "Leader"
           /\ m.reply.term = node[n].current_term
           /\ ~m.reply.success)
          => LET after == handle_append_entries_reply(node[n], m.from, m.args, m.reply)
                 next == after.leader_state[1].next_index[peer_idx(m.from)]
                 evs == after.pending_events
                 retries == {i \in 1..Len(evs) : evs[i].kind = "SendAppendEntries"}
             IN /\ next >= 1
                /\ next < m.args.prev_log_index + 1
                /\ Cardinality(retries) = 1
                /\ \A i \in retries :
                       /\ evs[i].peer = m.from
                       /\ evs[i].args.prev_log_index = next - 1]_vars

\* C37: within one term the vote of a node, once cast, is neither withdrawn
\* nor changed: a step that leaves current_term as it was leaves a voted_for
\* that was set as it was.
C37_OneVotePerTerm ==
    [][\A n \in Nodes :
          node[n].voted_for # None /\ node'[n].current_term = node[n].current_term
          => node'[n].voted_for = node[n].voted_for]_vars

\* ====================================================================
\* Further properties of the process table (ProcSpec).
\* ====================================================================

\* the number of times pid stands in the queue of level l of queues
OccurrencesIn(queues, l, pid) ==
    Cardinality({i \in 1..Len(queues[l]) : queues[l][i] = pid})

\* C33: a delivered Stop or Terminate signal takes the target out of the
\* ready queues, and no schedule() call returns the pid of a process that a
\* signal has left Stopped or Terminated.
C33_SignalTakesEffect ==
    [][/\ (/\ plog'.op = "send_signal"
           /\ plog'.result.ok
           /\ plog'.args[3] \in {"Stop", "Terminate"})
          => \A l \in 1..NUM_PRIORITIES :
                 ~Contains(pt'.ready_queues[l], plog'.args[2])
       /\ (/\ plog'.op = "schedule"
           /\ plog'.result # None
           /\ plog'.result[1] \in Pids(pt))
          => pt.processes[plog'.result[1]].state \notin {"Stopped", "Terminated"}
    ]_vars

\* C39: a process that is Zombie or Terminated is not made Ready or Running
\* and gains no place in a ready queue by send_signal(Stop), send_signal(
\* Continue), unblock, wake_sleepers, schedule or context_switch.
C39_ExitedStaysExited ==
    [][(\/ plog'.op \in {"unblock", "wake_sleepers", "schedule", "context_switch"}
        \/ plog'.op = "send_signal" /\ plog'.args[3] \in {"Stop", "Continue"})
       => \A p \in Pids(pt) \cap Pids(pt') :
              pt.processes[p].state \in {"Zombie", "Terminated"}
              => /\ pt'.processes[p].state \notin {"Ready", "Running"}
                 /\ \A l \in 1..NUM_PRIORITIES :
                        OccurrencesIn(pt'.ready_queues, l, p)
                            <= OccurrencesIn(pt.ready_queues, l, p)
    ]_vars


\* ====================================================================
\* Further properties of the healing heap (HeapSpec).
\* ====================================================================

\* the block list: the headers reached from the first block by next
BlockList(a) == NextWalk(a, a.heap_base, Cardinality(DOMAIN a.hdr))

\* the last call was a dealloc that freed its block
Freed ==
    /\ heap.last.op = "dealloc"
    /\ heap.a.stats.total_deallocations
           = heap.last.before.stats.total_deallocations + 1

\* C34: after every dealloc that freed its block, no two blocks that follow
\* one another in the address-ordered block list are both free.
C34_EagerCoalescing ==
    Freed /\ ~heap.a.wild =>
        LET list == BlockList(heap.a)
        IN \A i \in 1..(Len(list) - 1) :
               \/ heap.a.hdr[list[i]].is_allocated
               \/ heap.a.hdr[list[i + 1]].is_allocated

\* a dealloc found both the block before and the block after free and left
\* one free block in the place of the three
C34_Witness ==
    /\ Freed
    /\ ~heap.injected
    /\ LET was == heap.last.before
           at == heap.last.args[1] - HEADER_SIZE
       IN /\ at \in DOMAIN was.hdr
          /\ was.hdr[at].prev # None
          /\ was.hdr[at].next # None
          /\ ~was.hdr[was.hdr[at].prev[1]].is_allocated
          /\ ~was.hdr[was.hdr[at].next[1]].is_allocated
          /\ Len(BlockList(heap.a)) = Len(BlockList(was)) - 2


\* the step is a call of op on the heap
HeapStep(op) == heap'.steps = heap.steps + 1 /\ heap'.last.op = op

\* C35: with healing disabled, dealloc of a live allocated block whose magic
\* marker or trailing canary has been overwritten adds 1 to corruption_events
\* and returns without freeing: the block stays allocated, no deallocation is
\* counted and no header changes.
C35_UnhealedFreeRefused ==
    [][LET was == heap.a
           ptr == heap'.last.args[1]
           at == ptr - HEADER_SIZE
       IN (/\ HeapStep("dealloc")
           /\ ptr \in heap.live
           /\ ~was.healing_enabled
           /\ at \in DOMAIN was.hdr
           /\ was.hdr[at].is_allocated
           /\ \/ ~was.hdr[at].magic
              \/ ~check_canary(was, at + HEADER_SIZE + was.hdr[at].size))
          => /\ heap'.a.stats.corruption_events = was.stats.corruption_events + 1
             /\ heap'.a.stats.total_deallocations = was.stats.total_deallocations
             /\ heap'.a.hdr = was.hdr
             /\ heap'.a.free_list = was.free_list
    ]_vars


\* ptr lies inside a block that the block list of a records as free
InFreeBlock(a, ptr) ==
    \E i \in 1..Len(BlockList(a)) :
        LET at == BlockList(a)[i]
        IN /\ ~a.hdr[at].is_allocated
           /\ at <= ptr
           /\ ptr < BlockEnd(a, at)

\* C40: when every block handed out has been freed again, an alloc of a size
\* that succeeds on the freshly initialised heap succeeds, and the pointer it
\* returns does not lie inside a block that the block list records as free.
C40_FreedMemoryReusable ==
    [][LET size == heap'.last.args[1]
           fresh == HeapInitRegion(HealingHeapAllocator_new, HeapStart, HeapSize)
       IN (/\ HeapStep("alloc")
           /\ size # 0
           /\ heap.issued # {}
           /\ heap.live = {}
           /\ ~heap.injected
           /\ ~heap.misused
           /\ alloc(fresh, size).result # NullPtr)
          => /\ heap'.last.result # NullPtr
             /\ ~InFreeBlock(heap'.a, heap'.last.result)
    ]_vars


\* ====================================================================
\* The single-node state machine of cell0/kernel/src/raft.rs.
\* rn.n holds the fields of struct RaftNode; every method is an operator
\* from (node, arguments) to the new node and the value returned.
\* ====================================================================

\* ------------------------------------------------------------ bounds
MaxNodeOps == 3      \* RaftNode calls in one run
MaxNodeTerm == 2     \* terms of the requests are 1..MaxNodeTerm
MaxNodeLog == 2      \* log indexes of the requests are 1..MaxNodeLog

PersistentState_default == [current_term |-> 0, voted_for |-> None, log |-> <<>>]

PersistentState_last_index(self) == Len(self.log)

PersistentState_term_at(self, index) ==
    IF index = 0 \/ index > Len(self.log) THEN 0 ELSE self.log[index].term

PersistentState_append_entries(self, entries) ==
    [self EXCEPT !.log = @ \o entries]

PersistentState_truncate_from(self, index) ==
    IF index <= Len(self.log) /\ index > 0
    THEN [self EXCEPT !.log = SubSeq(@, 1, index - 1)]
    ELSE self

VolatileState_default == [commit_index |-> 0, last_applied |-> 0]

RaftNode_new(config) ==
    [config |-> config,
     persistent |-> PersistentState_default,
     volatile |-> VolatileState_default,
     state |-> "Follower",
     votes_received |-> <<>>,
     leader_id |-> 0]

RaftConfig_cluster_size(config) == Len(config.peers) + 1

RaftNode_become_follower(self, term) ==
    [self EXCEPT !.state = "Follower",
                 !.persistent.current_term = term,
                 !.persistent.voted_for = None,
                 !.votes_received = <<>>]

RaftNode_become_candidate(self) ==
    [self EXCEPT !.state = "Candidate",
                 !.persistent.current_term = @ + 1,
                 !.persistent.voted_for = Some(self.config.node_id),
                 !.votes_received = <<self.config.node_id>>]

RaftNode_become_leader(self) ==
    [self EXCEPT !.state = "Leader", !.leader_id = self.config.node_id]

NRet(self, result) == [n |-> self, result |-> result]

\* the for loop of handle_append_entries over request.entries
RECURSIVE RaftNode_append_loop(_, _, _)
RaftNode_append_loop(persistent, entries, next_index) ==
    IF entries = <<>> THEN persistent
    ELSE LET entry == Head(entries)
             stored ==
                 IF next_index <= PersistentState_last_index(persistent)
                 THEN IF PersistentState_term_at(persistent, next_index) # entry.term
                      THEN PersistentState_append_entries(
                               PersistentState_truncate_from(persistent, next_index),
                               <<entry>>)
                      ELSE persistent
                 ELSE PersistentState_append_entries(persistent, <<entry>>)
         IN RaftNode_append_loop(stored, Tail(entries), next_index + 1)

RaftNode_handle_append_entries(self, request) ==
    IF request.term < self.persistent.current_term
    THEN NRet(self, [term |-> self.persistent.current_term, success |-> FALSE])
    ELSE
    LET led == [self EXCEPT !.leader_id = request.leader_id]
        follower ==
            IF request.term > led.persistent.current_term
            THEN RaftNode_become_follower(led, request.term)
            ELSE IF led.state # "Follower"
            THEN RaftNode_become_follower(led, led.persistent.current_term)
            ELSE led
        term == follower.persistent.current_term
    IN IF /\ request.prev_log_index > 0
          /\ request.prev_log_index > PersistentState_last_index(follower.persistent)
       THEN NRet(follower, [term |-> term, success |-> FALSE])
       ELSE IF /\ request.prev_log_index > 0
               /\ PersistentState_term_at(follower.persistent, request.prev_log_index)
                      # request.prev_log_term
       THEN NRet([follower EXCEPT
                     !.persistent = PersistentState_truncate_from(
                                        @, request.prev_log_index)],
                 [term |-> term, success |-> FALSE])
       ELSE LET appended ==
                    [follower EXCEPT
                        !.persistent = RaftNode_append_loop(
                                           @, request.entries,
                                           request.prev_log_index + 1)]
                last_new == IF request.entries = <<>>
                            THEN request.prev_log_index
                            ELSE request.entries[Len(request.entries)].index
                committed ==
                    IF request.leader_commit > appended.volatile.commit_index
                    THEN [appended EXCEPT
                             !.volatile.commit_index =
                                 Min(request.leader_commit, last_new)]
                    ELSE appended
            IN NRet(committed, [term |-> term, success |-> TRUE])

RaftNode_handle_election_timeout(self) ==
    IF self.state = "Leader" THEN NRet(self, None)
    ELSE LET candidate == RaftNode_become_candidate(self)
         IN IF RaftConfig_cluster_size(candidate.config) = 1
            THEN NRet(RaftNode_become_leader(candidate), None)
            ELSE NRet(candidate,
                      Some([term |-> candidate.persistent.current_term,
                            candidate_id |-> candidate.config.node_id,
                            last_log_index |->
                                PersistentState_last_index(candidate.persistent),
                            last_log_term |->
                                IF candidate.persistent.log = <<>> THEN 0
                                ELSE candidate.persistent.log[
                                         Len(candidate.persistent.log)].term]))

\* ------------------------------------------------------------ inputs
\* the entry a leader of term t creates at index i (propose)
NodeEntry(t, i) == [term |-> t, index |-> i, data |-> <<>>, entry_type |-> "Command"]

\* the slices of a leader's log that start behind prev_log_index: indexes in
\* sequence, terms not decreasing, none below prev_log_term or above term
NodeSlices(term, prev_log_index, prev_log_term) ==
    LET lo == IF prev_log_term = 0 THEN 1 ELSE prev_log_term
    IN {<<>>}
       \cup {<<NodeEntry(t, prev_log_index + 1)>> :
                 t \in {x \in lo..term : prev_log_index + 1 <= MaxNodeLog}}
       \cup {<<NodeEntry(t[1], prev_log_index + 1), NodeEntry(t[2], prev_log_index + 2)>> :
                 t \in {x \in (lo..term) \X (lo..term) :
                            x[1] <= x[2] /\ prev_log_index + 2 <= MaxNodeLog}}

\* the AppendEntries requests of leaders 2 and 3
NodeRequests ==
    UNION {{[term |-> term, leader_id |-> leader_id,
             prev_log_index |-> prev[1], prev_log_term |-> prev[2],
             entries |-> entries, leader_commit |-> leader_commit] :
                entries \in NodeSlices(term, prev[1], prev[2]),
                leader_commit \in 0..(MaxNodeLog + 1)} :
            term \in 1..MaxNodeTerm, leader_id \in {2},
            prev \in {x \in (0..MaxNodeLog) \X (0..MaxNodeTerm) :
                          (x[1] = 0) = (x[2] = 0)}}

\* ------------------------------------------------------------ actions
\* RaftNode::new for node 1 of a cluster of three
NodeInit ==
    /\ RaftIdle
    /\ pt = Idle
    /\ plog = Idle
    /\ sm = Idle
    /\ slog = Idle
    /\ cv = Idle
    /\ ipc = Idle
    /\ MemoryIdle
    /\ rn = [n |-> RaftNode_new([node_id |-> 1, peers |-> <<2, 3>>]),
             last |-> [op |-> "new", args |-> <<>>, result |-> <<>>],
             steps |-> 0]

\* One call that left the node as r.n and returned r.result.
NCall(op, args, r) ==
    /\ rn.steps < MaxNodeOps
    /\ rn' = [n |-> r.n,
              last |-> [op |-> op, args |-> args, result |-> r.result],
              steps |-> rn.steps + 1]
    /\ UNCHANGED <<RaftVars, pt, plog, sm, slog, cv, ipc, heap, frames>>

NodeAppendEntries(request) ==
    NCall("handle_append_entries", <<request>>,
          RaftNode_handle_append_entries(rn.n, request))

NodeElectionTimeout ==
    /\ rn.n.persistent.current_term < MaxNodeTerm
    /\ NCall("handle_election_timeout", <<>>,
             RaftNode_handle_election_timeout(rn.n))

NodeNext ==
    \/ \E request \in NodeRequests : NodeAppendEntries(request)
    \/ NodeElectionTimeout

NodeSpec == NodeInit /\ [][NodeNext]_vars

\* the step is a call of op on the node
NodeStep(op) == rn'.steps = rn.steps + 1 /\ rn'.last.op = op

\* C38: across every handle_append_entries call on a RaftNode, heartbeats
\* with empty entries included, commit_index does not decrease and is at most
\* the length of the log after the call.
C38_CommitIndexBounds ==
    [][NodeStep("handle_append_entries") =>
          /\ rn'.n.volatile.commit_index >= rn.n.volatile.commit_index
          /\ rn'.n.volatile.commit_index
                 <= PersistentState_last_index(rn'.n.persistent)
    ]_vars

====
